---- MODULE Spec2Model ----
(***************************************************************************)
(* Model of atlas_api.reliability.circuit_breaker.CircuitBreaker: one      *)
(* breaker instance, the clock it reads (time.time()), the two Prometheus  *)
(* series it writes, and the callers that run call_sync / call_async on   *)
(* it.                                                                     *)
(*                                                                         *)
(* Three specifications share the state:                                   *)
(*   Spec        one caller, calls strictly one after the other, through   *)
(*               call_sync or call_async;                                  *)
(*   SpecAsync   several call_async invocations overlapping on one event   *)
(*               loop: a call is suspended only at "await func()", so the  *)
(*               code before and after the await runs without interruption;*)
(*   SpecThreads several threads in call_sync, interleaved statement by    *)
(*               statement (no lock is taken anywhere in the class).       *)
(*                                                                         *)
(* and of atlas_api.reliability.retry: RetryConfig.calculate_delay_ms and  *)
(* one run of the wrapper that retry_sync / retry_async put around func:   *)
(*   SpecRetry   one call of the wrapper, from the call to its return or   *)
(*               raise;                                                    *)
(*   SpecDelay   calls of calculate_delay_ms on a RetryConfig.             *)
(*                                                                         *)
(* and of atlas_api.reliability.slo and the validating constructors:       *)
(*   SpecSlo     one call of get_slo_for_endpoint on an endpoint;          *)
(*   SpecCallers lookups, and callers assigning to fields of the objects   *)
(*               the lookups returned;                                     *)
(*   SpecBuild   one construction of an SLI, a CircuitBreakerConfig or a   *)
(*               RetryConfig, and calculate_delay_ms on the result;        *)
(*   SpecTwin    two breakers given the same calls, one through call_sync, *)
(*               one through call_async.                                   *)
(*                                                                         *)
(* and, for what holds of runs without end and of the parts put together:  *)
(*   SpecLive      callers that never stop calling a breaker whose func    *)
(*                 stops raising, under weak fairness;                     *)
(*   SpecRetryFair SpecRetry under weak fairness;                          *)
(*   SpecCompose   one run of the retry wrapper whose func is a breaker's  *)
(*                 call_sync / call_async around a failing operation;      *)
(*   SpecShed      requests through                                        *)
(*                 atlas_api.middleware.reliability.LoadSheddingMiddleware *)
(*                 on one event loop.                                      *)
(***************************************************************************)
EXTENDS Integers, Sequences, FiniteSets, TLC

\* ---- bounds of the model -------------------------------------------------
MaxThreshold == 2
MaxTimeout == 2
MaxTime == 2
MaxCalls == 5
MaxAsyncCalls == 4
MaxCallers == 2
MaxThreadCalls == 3
MaxAttempts == 3
MaxBaseDelay == 2
MaxDelayCap == 4
MaxAttemptArg == 3
MaxPieces == 2
MaxTwinCalls == 4
MaxLiveTime == 3
MaxLiveFailures == 2
MaxConcurrent == 2
MaxArrivals == 4

\* ---- values --------------------------------------------------------------
CLOSED == "closed"
OPEN == "open"
HALF_OPEN == "half_open"

\* Optional[float] = None
None == -1

\* Exception types the protected operation can raise, and the subclass
\* relation isinstance() follows: every type derives from Exception.
OpKinds == {"Exception", "ValueError"}
IsInstance(kind, type) == kind = type \/ type = "Exception"

\* the candidate values of the constructor's `exceptions` tuple
FailureSets == {{"Exception"}, {"ValueError"}}

NoError == [kind |-> "none", origin |-> "none"]
OpErrors == {[kind |-> k, origin |-> "op"] : k \in OpKinds}

\* raise Exception(f"Circuit breaker {self.name} is OPEN. ...")
CircuitOpenError == [kind |-> "Exception", origin |-> "breaker"]

Conventions == {"sync", "async"}
Callers == 1..MaxCallers

VARIABLES
    config,                          \* CircuitBreakerConfig
    exceptions,                      \* self.exceptions
    state,                           \* self.state
    failure_count,                   \* self.failure_count
    success_count,                   \* self.success_count
    last_failure_time,               \* self.last_failure_time
    opened_at,                       \* self.opened_at
    circuit_breaker_state,           \* gauge, label service=self.name
    circuit_breaker_failures_total,  \* counter, label service=self.name
    now,                             \* time.time()
    calls,                           \* per caller: position in call_sync/call_async
    log,                             \* history: finished calls, oldest first
    started,                         \* history: number of execute calls begun
    invoked,                         \* history: number of times func was invoked
    retry_config,                    \* config of retry_sync / retry_async
    retry_exceptions,                \* exceptions of retry_sync / retry_async
    on_retry,                        \* whether an on_retry callback was given
    run,                             \* the wrapper's locals and position
    retry_attempts_total,            \* counter, by label attempt
    events,                          \* history: what the wrapper did, in order
    calc,                            \* history: last call of calculate_delay_ms
    objectives,                      \* slo.py: the objects the three globals are bound to
    lookup,                          \* history: last call of get_slo_for_endpoint
    built,                           \* history: last call of a class with validation
    twin,                            \* two more breakers, driven side by side
    shed                             \* LoadSheddingMiddleware and its requests

breaker == <<state, failure_count, success_count, last_failure_time, opened_at>>
metrics == <<circuit_breaker_state, circuit_breaker_failures_total>>
retry_state == <<retry_config, retry_exceptions, on_retry, run, retry_attempts_total,
                 events, calc>>
other_state == <<objectives, lookup, built, twin, shed>>
vars == <<config, exceptions, state, failure_count, success_count,
          last_failure_time, opened_at, circuit_breaker_state,
          circuit_breaker_failures_total, now, calls, log, started, invoked,
          retry_state, other_state>>

\* what no statement of the breaker writes
fixed == <<config, exceptions, now, retry_state, other_state>>

\* ---- CircuitBreakerConfig ------------------------------------------------
CircuitBreakerConfig(ft, rt, st) ==
    [failure_threshold |-> ft, recovery_timeout_seconds |-> rt, success_threshold |-> st]

Configs ==
    {CircuitBreakerConfig(ft, rt, st) :
        ft \in 1..MaxThreshold, rt \in 1..MaxTimeout, st \in 1..MaxThreshold}

\* ---- the breaker as a value ----------------------------------------------
Self ==
    [state |-> state, failure_count |-> failure_count, success_count |-> success_count,
     last_failure_time |-> last_failure_time, opened_at |-> opened_at,
     gauge |-> circuit_breaker_state, failures |-> circuit_breaker_failures_total]

Becomes(b) ==
    /\ state' = b.state
    /\ failure_count' = b.failure_count
    /\ success_count' = b.success_count
    /\ last_failure_time' = b.last_failure_time
    /\ opened_at' = b.opened_at
    /\ circuit_breaker_state' = b.gauge
    /\ circuit_breaker_failures_total' = b.failures

StateValue(s) == CASE s = CLOSED -> 0 [] s = OPEN -> 1 [] s = HALF_OPEN -> 2

update_metrics(b) == [b EXCEPT !.gauge = StateValue(b.state)]

\* variant: the timeout must be exceeded, not only reached
should_attempt_reset_strict(b, t) ==
    IF b.state # OPEN THEN FALSE
    ELSE IF b.opened_at = None THEN FALSE
    ELSE (t - b.opened_at) > config.recovery_timeout_seconds

should_attempt_reset(b, t) ==
    IF b.state # OPEN THEN FALSE
    ELSE IF b.opened_at = None THEN FALSE
    ELSE (t - b.opened_at) >= config.recovery_timeout_seconds

Catches(e) == \E type \in exceptions : IsInstance(e.kind, type)

\* ---- variants of the pieces of call_sync (none is used by the model) -------
\* entering HalfOpen also clears failure_count
call_sync_enter_clearing(b, t) ==
    LET b1 == IF should_attempt_reset(b, t)
              THEN update_metrics([b EXCEPT !.state = HALF_OPEN, !.success_count = 0,
                                            !.failure_count = 0])
              ELSE b
    IN  IF b1.state = OPEN
        THEN [self |-> b1, admitted |-> FALSE, raised |-> CircuitOpenError]
        ELSE [self |-> b1, admitted |-> TRUE, raised |-> NoError]

\* the rejection is raised inside the try block, so the except clause sees it
call_sync_enter_counting(b, t) ==
    LET b1 == IF should_attempt_reset(b, t)
              THEN update_metrics([b EXCEPT !.state = HALF_OPEN, !.success_count = 0])
              ELSE b
    IN  IF b1.state = OPEN
        THEN IF Catches(CircuitOpenError)
             THEN [self |-> update_metrics([b1 EXCEPT !.failure_count = @ + 1,
                                                      !.last_failure_time = t,
                                                      !.failures = @ + 1,
                                                      !.opened_at = t]),
                   admitted |-> FALSE, raised |-> CircuitOpenError]
             ELSE [self |-> b1, admitted |-> FALSE, raised |-> CircuitOpenError]
        ELSE [self |-> b1, admitted |-> TRUE, raised |-> NoError]

\* success_count must exceed the threshold
call_sync_success_late(b) ==
    IF b.state = HALF_OPEN
    THEN LET b1 == [b EXCEPT !.success_count = @ + 1]
         IN  IF b1.success_count > config.success_threshold
             THEN update_metrics([b1 EXCEPT !.state = CLOSED, !.failure_count = 0])
             ELSE b1
    ELSE IF b.state = CLOSED
    THEN [b EXCEPT !.failure_count = 0]
    ELSE b

\* a success while Closed keeps failure_count
call_sync_success_keeping(b) ==
    IF b.state = HALF_OPEN
    THEN LET b1 == [b EXCEPT !.success_count = @ + 1]
         IN  IF b1.success_count >= config.success_threshold
             THEN update_metrics([b1 EXCEPT !.state = CLOSED, !.failure_count = 0])
             ELSE b1
    ELSE b

\* the except clause matches every error ("except Exception as e")
call_sync_failure_any(b, t, e) ==
    LET b1 == [b EXCEPT !.failure_count = @ + 1,
                        !.last_failure_time = t,
                        !.failures = @ + 1]
    IN  IF b1.failure_count >= config.failure_threshold
        THEN [self |-> update_metrics([b1 EXCEPT !.state = OPEN, !.opened_at = t]),
              raised |-> e]
        ELSE [self |-> b1, raised |-> e]

\* failure_count must exceed the threshold
call_sync_failure_late(b, t, e) ==
    IF Catches(e)
    THEN LET b1 == [b EXCEPT !.failure_count = @ + 1,
                             !.last_failure_time = t,
                             !.failures = @ + 1]
         IN  IF b1.failure_count > config.failure_threshold
             THEN [self |-> update_metrics([b1 EXCEPT !.state = OPEN, !.opened_at = t]),
                   raised |-> e]
             ELSE [self |-> b1, raised |-> e]
    ELSE [self |-> b, raised |-> e]

\* an open breaker lets the call through
call_sync_enter_admitting(b, t) ==
    LET b1 == IF should_attempt_reset(b, t)
              THEN update_metrics([b EXCEPT !.state = HALF_OPEN, !.success_count = 0])
              ELSE b
    IN  [self |-> b1, admitted |-> TRUE, raised |-> NoError]

\* ---- call_sync, as three uninterrupted pieces ----------------------------
\* lines 145-156: the recovery check and the rejection
call_sync_enter(b, t) ==
    LET b1 == IF should_attempt_reset(b, t)
              THEN update_metrics([b EXCEPT !.state = HALF_OPEN, !.success_count = 0])
              ELSE b
    IN  IF b1.state = OPEN
        THEN [self |-> b1, admitted |-> FALSE, raised |-> CircuitOpenError]
        ELSE [self |-> b1, admitted |-> TRUE, raised |-> NoError]

\* lines 161-175: func returned
call_sync_success(b) ==
    IF b.state = HALF_OPEN
    THEN LET b1 == [b EXCEPT !.success_count = @ + 1]
         IN  IF b1.success_count >= config.success_threshold
             THEN update_metrics([b1 EXCEPT !.state = CLOSED, !.failure_count = 0])
             ELSE b1
    ELSE IF b.state = CLOSED
    THEN [b EXCEPT !.failure_count = 0]
    ELSE b

\* lines 177-197: func raised e
call_sync_failure(b, t, e) ==
    IF Catches(e)
    THEN LET b1 == [b EXCEPT !.failure_count = @ + 1,
                             !.last_failure_time = t,
                             !.failures = @ + 1]
         IN  IF b1.failure_count >= config.failure_threshold
             THEN [self |-> update_metrics([b1 EXCEPT !.state = OPEN, !.opened_at = t]),
                   raised |-> e]
             ELSE [self |-> b1, raised |-> e]
    ELSE [self |-> b, raised |-> e]

\* ---- variants of the pieces of call_async (none is used by the model) ------
\* the failure that opens the breaker is reported as a circuit-open error
call_async_failure_translating(b, t, e) ==
    IF Catches(e)
    THEN LET b1 == [b EXCEPT !.failure_count = @ + 1,
                             !.last_failure_time = t,
                             !.failures = @ + 1]
         IN  IF b1.failure_count >= config.failure_threshold
             THEN [self |-> update_metrics([b1 EXCEPT !.state = OPEN, !.opened_at = t]),
                   raised |-> CircuitOpenError]
             ELSE [self |-> b1, raised |-> e]
    ELSE [self |-> b, raised |-> e]

\* a success while Closed leaves failure_count as it is
call_async_success_keeping(b) ==
    IF b.state = HALF_OPEN
    THEN LET b1 == [b EXCEPT !.success_count = @ + 1]
         IN  IF b1.success_count >= config.success_threshold
             THEN update_metrics([b1 EXCEPT !.state = CLOSED, !.failure_count = 0])
             ELSE b1
    ELSE b

\* a success closes the breaker from Open as well
call_async_success_closing(b) ==
    IF b.state \in {HALF_OPEN, OPEN}
    THEN LET b1 == [b EXCEPT !.success_count = @ + 1]
         IN  IF b1.success_count >= config.success_threshold
             THEN update_metrics([b1 EXCEPT !.state = CLOSED, !.failure_count = 0])
             ELSE b1
    ELSE IF b.state = CLOSED
    THEN [b EXCEPT !.failure_count = 0]
    ELSE b

\* entering HalfOpen also clears failure_count
call_async_enter_clearing(b, t) ==
    LET b1 == IF should_attempt_reset(b, t)
              THEN update_metrics([b EXCEPT !.state = HALF_OPEN, !.success_count = 0,
                                            !.failure_count = 0])
              ELSE b
    IN  IF b1.state = OPEN
        THEN [self |-> b1, admitted |-> FALSE, raised |-> CircuitOpenError]
        ELSE [self |-> b1, admitted |-> TRUE, raised |-> NoError]

\* a success while HalfOpen starts the count again
call_async_success_restarting(b) ==
    IF b.state = HALF_OPEN
    THEN LET b1 == [b EXCEPT !.success_count = 1]
         IN  IF b1.success_count >= config.success_threshold
             THEN update_metrics([b1 EXCEPT !.state = CLOSED, !.failure_count = 0])
             ELSE b1
    ELSE IF b.state = CLOSED
    THEN [b EXCEPT !.failure_count = 0]
    ELSE b

\* ---- call_async, as three uninterrupted pieces ---------------------------
\* lines 216-227
call_async_enter(b, t) ==
    LET b1 == IF should_attempt_reset(b, t)
              THEN update_metrics([b EXCEPT !.state = HALF_OPEN, !.success_count = 0])
              ELSE b
    IN  IF b1.state = OPEN
        THEN [self |-> b1, admitted |-> FALSE, raised |-> CircuitOpenError]
        ELSE [self |-> b1, admitted |-> TRUE, raised |-> NoError]

\* lines 232-246
call_async_success(b) ==
    IF b.state = HALF_OPEN
    THEN LET b1 == [b EXCEPT !.success_count = @ + 1]
         IN  IF b1.success_count >= config.success_threshold
             THEN update_metrics([b1 EXCEPT !.state = CLOSED, !.failure_count = 0])
             ELSE b1
    ELSE IF b.state = CLOSED
    THEN [b EXCEPT !.failure_count = 0]
    ELSE b

\* lines 248-268
call_async_failure(b, t, e) ==
    IF Catches(e)
    THEN LET b1 == [b EXCEPT !.failure_count = @ + 1,
                             !.last_failure_time = t,
                             !.failures = @ + 1]
         IN  IF b1.failure_count >= config.failure_threshold
             THEN [self |-> update_metrics([b1 EXCEPT !.state = OPEN, !.opened_at = t]),
                   raised |-> e]
             ELSE [self |-> b1, raised |-> e]
    ELSE [self |-> b, raised |-> e]

Enter(conv, b, t) == IF conv = "sync" THEN call_sync_enter(b, t) ELSE call_async_enter(b, t)
Success(conv, b) == IF conv = "sync" THEN call_sync_success(b) ELSE call_async_success(b)
Failure(conv, b, t, e) ==
    IF conv = "sync" THEN call_sync_failure(b, t, e) ELSE call_async_failure(b, t, e)

\* ---- RetryConfig -----------------------------------------------------------
\* multiplier is a float: 1.0, 1.5 and 2.0, kept as exact fractions
Multipliers == {[num |-> 1, den |-> 1], [num |-> 3, den |-> 2], [num |-> 2, den |-> 1]}

\* random.uniform(0.5, 1.5): 0.5, 0.75, 1.0, 1.25 and 1.5
JitterFactors == {[num |-> n, den |-> 4] : n \in 2..6}
NoJitter == [num |-> 4, den |-> 4]

RetryConfig(ma, bd, md, mu, j) ==
    [max_attempts |-> ma, base_delay_ms |-> bd, max_delay_ms |-> md,
     multiplier |-> mu, jitter |-> j]

\* the configurations __init__ accepts, within the bounds
RetryConfigs ==
    {c \in [max_attempts : 1..MaxAttempts, base_delay_ms : 0..MaxBaseDelay,
            max_delay_ms : 0..MaxDelayCap, multiplier : Multipliers, jitter : BOOLEAN] :
        c.max_delay_ms >= c.base_delay_ms}

\* RetryConfig()
DefaultRetryConfig == RetryConfig(3, 100, 10000, [num |-> 2, den |-> 1], TRUE)

RECURSIVE Pow(_, _)
Pow(x, k) == IF k = 0 THEN 1 ELSE x * Pow(x, k - 1)

\* variant: the cap is not applied
calculate_delay_ms_uncapped(cfg, attempt, factor) ==
    LET d == [num |-> cfg.base_delay_ms * Pow(cfg.multiplier.num, attempt),
              den |-> Pow(cfg.multiplier.den, attempt)]
        j == IF cfg.jitter
             THEN [num |-> d.num * factor.num, den |-> d.den * factor.den]
             ELSE d
    IN  j.num \div j.den

\* variant: the jitter factor is drawn from (0.0, 1.5)
calculate_delay_ms_wide(cfg, attempt, factor) ==
    LET d == [num |-> cfg.base_delay_ms * Pow(cfg.multiplier.num, attempt),
              den |-> Pow(cfg.multiplier.den, attempt)]
        c == IF d.num <= cfg.max_delay_ms * d.den THEN d
             ELSE [num |-> cfg.max_delay_ms, den |-> 1]
        j == IF cfg.jitter
             THEN [num |-> c.num * (factor.num - 2), den |-> c.den * factor.den]
             ELSE c
    IN  j.num \div j.den

\* calculate_delay_ms(attempt), factor being the value random.uniform returns:
\* the delay is the fraction num/den until int() truncates it
calculate_delay_ms(cfg, attempt, factor) ==
    LET d == [num |-> cfg.base_delay_ms * Pow(cfg.multiplier.num, attempt),
              den |-> Pow(cfg.multiplier.den, attempt)]
        c == IF d.num <= cfg.max_delay_ms * d.den THEN d
             ELSE [num |-> cfg.max_delay_ms, den |-> 1]
        j == IF cfg.jitter
             THEN [num |-> c.num * factor.num, den |-> c.den * factor.den]
             ELSE c
    \* int(delay): a NaN (multiplier NaN, attempt > 0) raises ValueError
    IN  IF j.den = 0 THEN None ELSE j.num \div j.den

\* ---- the wrapper of retry_sync / retry_async ---------------------------------
\* errors seen by the wrapper: what func raised on an attempt, what on_retry
\* raised, and the wrapper's own Exception(f"Failed after ... attempts")
RetryNone == [kind |-> "none", origin |-> "none", attempt |-> -1]
FuncErrors(attempt) == {[kind |-> k, origin |-> "func", attempt |-> attempt] : k \in OpKinds}
CallbackErrors(attempt) == {[kind |-> "Exception", origin |-> "on_retry", attempt |-> attempt]}
FailedAfterError == [kind |-> "Exception", origin |-> "wrapper", attempt |-> -1]

\* except exceptions as e
RetryCatches(e) == \E type \in retry_exceptions : IsInstance(e.kind, type)

\* the truth value of last_exception in "last_exception or Exception(...)":
\* None is false, an exception object is true
Truthy(e) == e # RetryNone

Event(ev, n, err) == [ev |-> ev, n |-> n, err |-> err]

NotCalled ==
    [pc |-> "idle", conv |-> "none", attempt |-> 0, last_exception |-> RetryNone,
     delay_ms |-> 0, out |-> "none", err |-> RetryNone]

\* the result of one piece of the wrapper: its locals, the events it adds, and
\* the labels of retry_attempts_total it increments
Piece(r, evs, labels) == [run |-> r, events |-> evs, inc |-> labels]

\* ---- the wrapper of retry_sync, in uninterrupted pieces --------------------
\* variant: the loop makes one iteration more
retry_sync_next_extra(r) ==
    IF r.attempt < retry_config.max_attempts + 1
    THEN Piece([r EXCEPT !.pc = "running"], <<Event("invoke", r.attempt, RetryNone)>>, {})
    ELSE Piece([r EXCEPT !.pc = "done", !.out = "raised",
                         !.err = IF Truthy(r.last_exception) THEN r.last_exception
                                 ELSE FailedAfterError],
               <<>>, {})

\* variant: an error raised by on_retry is swallowed
retry_sync_callback_raised_swallowing(r, ce) == Piece([r EXCEPT !.pc = "sleep"], <<>>, {})

\* lines 121-125: the next iteration of the for loop invokes func; after the
\* last one, line 155: raise last_exception or Exception(...)
retry_sync_next(r) ==
    IF r.attempt < retry_config.max_attempts
    THEN Piece([r EXCEPT !.pc = "running"], <<Event("invoke", r.attempt, RetryNone)>>, {})
    ELSE Piece([r EXCEPT !.pc = "done", !.out = "raised",
                         !.err = IF Truthy(r.last_exception) THEN r.last_exception
                                 ELSE FailedAfterError],
               <<>>, {})

\* lines 126-130: func returned
retry_sync_returned(r) == Piece([r EXCEPT !.pc = "done", !.out = "returned"], <<>>, {})

\* variant: sleeps after the last attempt too
retry_sync_except_sleeping_last(r, e, factor) ==
    IF ~RetryCatches(e)
    THEN Piece([r EXCEPT !.pc = "done", !.out = "raised", !.err = e], <<>>, {})
    ELSE LET r1 == [r EXCEPT !.last_exception = e]
         IN  IF r.attempt < retry_config.max_attempts
             THEN LET d == calculate_delay_ms(retry_config, r.attempt, factor)
                  IN  IF on_retry
                      THEN Piece([r1 EXCEPT !.delay_ms = d, !.pc = "on_retry"],
                                 <<Event("delay", d, RetryNone),
                                   Event("on_retry", r.attempt + 1, e)>>,
                                 {r.attempt + 1})
                      ELSE Piece([r1 EXCEPT !.delay_ms = d, !.pc = "sleep"],
                                 <<Event("delay", d, RetryNone)>>,
                                 {r.attempt + 1})
             ELSE Piece([r1 EXCEPT !.attempt = @ + 1, !.pc = "loop"], <<>>, {r.attempt + 1})

\* variant: the delay of the following attempt
retry_sync_except_shifted(r, e, factor) ==
    IF ~RetryCatches(e)
    THEN Piece([r EXCEPT !.pc = "done", !.out = "raised", !.err = e], <<>>, {})
    ELSE LET r1 == [r EXCEPT !.last_exception = e]
         IN  IF r.attempt < retry_config.max_attempts - 1
             THEN LET d == calculate_delay_ms(retry_config, r.attempt + 1, factor)
                  IN  IF on_retry
                      THEN Piece([r1 EXCEPT !.delay_ms = d, !.pc = "on_retry"],
                                 <<Event("delay", d, RetryNone),
                                   Event("on_retry", r.attempt + 1, e)>>,
                                 {r.attempt + 1})
                      ELSE Piece([r1 EXCEPT !.delay_ms = d, !.pc = "sleep"],
                                 <<Event("delay", d, RetryNone)>>,
                                 {r.attempt + 1})
             ELSE Piece([r1 EXCEPT !.attempt = @ + 1, !.pc = "loop"], <<>>, {r.attempt + 1})

\* variant: on_retry gets the attempt counted from 0
retry_sync_except_zero_based(r, e, factor) ==
    IF ~RetryCatches(e)
    THEN Piece([r EXCEPT !.pc = "done", !.out = "raised", !.err = e], <<>>, {})
    ELSE LET r1 == [r EXCEPT !.last_exception = e]
         IN  IF r.attempt < retry_config.max_attempts - 1
             THEN LET d == calculate_delay_ms(retry_config, r.attempt, factor)
                  IN  IF on_retry
                      THEN Piece([r1 EXCEPT !.delay_ms = d, !.pc = "on_retry"],
                                 <<Event("delay", d, RetryNone),
                                   Event("on_retry", r.attempt, e)>>,
                                 {r.attempt + 1})
                      ELSE Piece([r1 EXCEPT !.delay_ms = d, !.pc = "sleep"],
                                 <<Event("delay", d, RetryNone)>>,
                                 {r.attempt + 1})
             ELSE Piece([r1 EXCEPT !.attempt = @ + 1, !.pc = "loop"], <<>>, {r.attempt + 1})

\* lines 131-153: func raised e; the except clause up to the call of on_retry
\* or of sleep, or, on the last attempt, to the end of the iteration
retry_sync_except(r, e, factor) ==
    IF ~RetryCatches(e)
    THEN Piece([r EXCEPT !.pc = "done", !.out = "raised", !.err = e], <<>>, {})
    ELSE LET r1 == [r EXCEPT !.last_exception = e]
         IN  IF r.attempt < retry_config.max_attempts - 1
             THEN LET d == calculate_delay_ms(retry_config, r.attempt, factor)
                  IN  IF on_retry
                      THEN Piece([r1 EXCEPT !.delay_ms = d, !.pc = "on_retry"],
                                 <<Event("delay", d, RetryNone),
                                   Event("on_retry", r.attempt + 1, e)>>,
                                 {r.attempt + 1})
                      ELSE Piece([r1 EXCEPT !.delay_ms = d, !.pc = "sleep"],
                                 <<Event("delay", d, RetryNone)>>,
                                 {r.attempt + 1})
             ELSE Piece([r1 EXCEPT !.attempt = @ + 1, !.pc = "loop"], <<>>, {r.attempt + 1})

\* line 146: on_retry returned
retry_sync_callback_returned(r) == Piece([r EXCEPT !.pc = "sleep"], <<>>, {})

\* line 146: on_retry raised ce, inside the except clause
retry_sync_callback_raised(r, ce) ==
    Piece([r EXCEPT !.pc = "done", !.out = "raised", !.err = ce], <<>>, {})

\* line 148: the sleep, then the end of the iteration
retry_sync_slept(r) ==
    Piece([r EXCEPT !.attempt = @ + 1, !.pc = "loop"],
          <<Event("sleep", r.delay_ms, RetryNone)>>, {})

\* ---- the wrapper of retry_async, in uninterrupted pieces --------------------
\* lines 194-198: the next iteration of the for loop invokes func; after the
\* last one, line 228: raise last_exception or Exception(...)
retry_async_next(r) ==
    IF r.attempt < retry_config.max_attempts
    THEN Piece([r EXCEPT !.pc = "running"], <<Event("invoke", r.attempt, RetryNone)>>, {})
    ELSE Piece([r EXCEPT !.pc = "done", !.out = "raised",
                         !.err = IF Truthy(r.last_exception) THEN r.last_exception
                                 ELSE FailedAfterError],
               <<>>, {})

\* lines 199-203: func returned
retry_async_returned(r) == Piece([r EXCEPT !.pc = "done", !.out = "returned"], <<>>, {})

\* variant: keeps the first caught error
retry_async_except_keeping_first(r, e, factor) ==
    IF ~RetryCatches(e)
    THEN Piece([r EXCEPT !.pc = "done", !.out = "raised", !.err = e], <<>>, {})
    ELSE LET r1 == [r EXCEPT !.last_exception = IF Truthy(r.last_exception) THEN r.last_exception ELSE e]
         IN  IF r.attempt < retry_config.max_attempts - 1
             THEN LET d == calculate_delay_ms(retry_config, r.attempt, factor)
                  IN  IF on_retry
                      THEN Piece([r1 EXCEPT !.delay_ms = d, !.pc = "on_retry"],
                                 <<Event("delay", d, RetryNone),
                                   Event("on_retry", r.attempt + 1, e)>>,
                                 {r.attempt + 1})
                      ELSE Piece([r1 EXCEPT !.delay_ms = d, !.pc = "sleep"],
                                 <<Event("delay", d, RetryNone)>>,
                                 {r.attempt + 1})
             ELSE Piece([r1 EXCEPT !.attempt = @ + 1, !.pc = "loop"], <<>>, {r.attempt + 1})

\* variant: catches every error
retry_async_except_any(r, e, factor) ==
    LET r1 == [r EXCEPT !.last_exception = e]
    IN  IF r.attempt < retry_config.max_attempts - 1
        THEN LET d == calculate_delay_ms(retry_config, r.attempt, factor)
             IN  IF on_retry
                 THEN Piece([r1 EXCEPT !.delay_ms = d, !.pc = "on_retry"],
                            <<Event("delay", d, RetryNone),
                              Event("on_retry", r.attempt + 1, e)>>,
                            {r.attempt + 1})
                 ELSE Piece([r1 EXCEPT !.delay_ms = d, !.pc = "sleep"],
                            <<Event("delay", d, RetryNone)>>,
                            {r.attempt + 1})
        ELSE Piece([r1 EXCEPT !.attempt = @ + 1, !.pc = "loop"], <<>>, {r.attempt + 1})

\* lines 204-226: func raised e; the except clause up to the call of on_retry
\* or of sleep, or, on the last attempt, to the end of the iteration
retry_async_except(r, e, factor) ==
    IF ~RetryCatches(e)
    THEN Piece([r EXCEPT !.pc = "done", !.out = "raised", !.err = e], <<>>, {})
    ELSE LET r1 == [r EXCEPT !.last_exception = e]
         IN  IF r.attempt < retry_config.max_attempts - 1
             THEN LET d == calculate_delay_ms(retry_config, r.attempt, factor)
                  IN  IF on_retry
                      THEN Piece([r1 EXCEPT !.delay_ms = d, !.pc = "on_retry"],
                                 <<Event("delay", d, RetryNone),
                                   Event("on_retry", r.attempt + 1, e)>>,
                                 {r.attempt + 1})
                      ELSE Piece([r1 EXCEPT !.delay_ms = d, !.pc = "sleep"],
                                 <<Event("delay", d, RetryNone)>>,
                                 {r.attempt + 1})
             ELSE Piece([r1 EXCEPT !.attempt = @ + 1, !.pc = "loop"], <<>>, {r.attempt + 1})

\* line 219: on_retry returned
retry_async_callback_returned(r) == Piece([r EXCEPT !.pc = "sleep"], <<>>, {})

\* line 219: on_retry raised ce, inside the except clause
retry_async_callback_raised(r, ce) ==
    Piece([r EXCEPT !.pc = "done", !.out = "raised", !.err = ce], <<>>, {})

\* line 221: the sleep, then the end of the iteration
retry_async_slept(r) ==
    Piece([r EXCEPT !.attempt = @ + 1, !.pc = "loop"],
          <<Event("sleep", r.delay_ms, RetryNone)>>, {})

RetryNextPiece(r) == IF r.conv = "sync" THEN retry_sync_next(r) ELSE retry_async_next(r)
RetryReturned(r) == IF r.conv = "sync" THEN retry_sync_returned(r) ELSE retry_async_returned(r)
RetryExcept(r, e, factor) ==
    IF r.conv = "sync" THEN retry_sync_except(r, e, factor) ELSE retry_async_except(r, e, factor)
RetryCallbackReturned(r) ==
    IF r.conv = "sync" THEN retry_sync_callback_returned(r)
    ELSE retry_async_callback_returned(r)
RetryCallbackRaised(r, ce) ==
    IF r.conv = "sync" THEN retry_sync_callback_raised(r, ce)
    ELSE retry_async_callback_raised(r, ce)
RetrySlept(r) == IF r.conv = "sync" THEN retry_sync_slept(r) ELSE retry_async_slept(r)

\* calculate_delay_ms has not been called
NoCalc == [attempt |-> -1, factor |-> NoJitter, result |-> -1]

\* no wrapper is in use
NoRetry ==
    /\ retry_config = DefaultRetryConfig
    /\ retry_exceptions = {"Exception"}
    /\ on_retry = FALSE
    /\ run = NotCalled
    /\ retry_attempts_total = [l \in 1..MaxAttempts |-> 0]
    /\ events = <<>>
    /\ calc = NoCalc

\* ---- floats ----------------------------------------------------------------
\* A float is a fraction num/den with den > 0, or NaN; the comparisons are
\* Python's: every comparison with NaN is false.
NaN == [num |-> 0, den |-> 0]
Frac(n, d) == [num |-> n, den |-> d]
Float(n) == [num |-> n, den |-> 1]
IsNaN(x) == x.den = 0
Le(x, y) == ~IsNaN(x) /\ ~IsNaN(y) /\ x.num * y.den <= y.num * x.den
Lt(x, y) == ~IsNaN(x) /\ ~IsNaN(y) /\ x.num * y.den < y.num * x.den

\* the outcome of calling a class: the object, or the ValueError raised
NoObject == [name |-> "none"]
Constructed(obj) == [error |-> "none", obj |-> obj]
ConstructionError == [error |-> "ValueError", obj |-> NoObject]
\* the call has not run yet
Pending == [error |-> "pending", obj |-> NoObject]

\* ---- slo.py: the SLI dataclasses (generated __init__, then __post_init__) -----
LatencySLI(p50_ms, p95_ms, p99_ms, p999_ms) ==
    IF ~(Le(p50_ms, p95_ms) /\ Le(p95_ms, p99_ms) /\ Le(p99_ms, p999_ms))
    THEN ConstructionError
    ELSE Constructed([p50_ms |-> p50_ms, p95_ms |-> p95_ms, p99_ms |-> p99_ms,
                      p999_ms |-> p999_ms])

ErrorRateSLI(max_error_rate, max_5xx_rate) ==
    IF ~(Le(Float(0), max_error_rate) /\ Le(max_error_rate, Float(1)))
    THEN ConstructionError
    ELSE IF ~(Le(Float(0), max_5xx_rate) /\ Le(max_5xx_rate, Float(1)))
    THEN ConstructionError
    ELSE Constructed([max_error_rate |-> max_error_rate, max_5xx_rate |-> max_5xx_rate])

ThroughputSLI(min_rps, max_rps) ==
    IF Lt(min_rps, Float(0)) \/ Lt(max_rps, Float(0))
    THEN ConstructionError
    ELSE IF Lt(max_rps, min_rps)
    THEN ConstructionError
    ELSE Constructed([min_rps |-> min_rps, max_rps |-> max_rps])

AvailabilitySLI(min_availability) ==
    IF ~(Le(Float(0), min_availability) /\ Le(min_availability, Float(1)))
    THEN ConstructionError
    ELSE Constructed([min_availability |-> min_availability])

\* no __post_init__: the fields are stored as given
ServiceLevelObjective(name, description, latency, error_rate, throughput, availability, window_minutes) ==
    [name |-> name, description |-> description, latency |-> latency,
     error_rate |-> error_rate, throughput |-> throughput, availability |-> availability,
     window_minutes |-> window_minutes]

\* ---- slo.py: the three module-level objectives, as built at import ------------
ATLAS_API_SLO ==
    ServiceLevelObjective(
        "atlas-api", "Atlas API Service Level Objective",
        LatencySLI(Float(50), Float(200), Float(500), Float(1000)).obj,
        ErrorRateSLI(Frac(1, 100), Frac(1, 1000)).obj,
        ThroughputSLI(Float(100), Float(10000)).obj,
        AvailabilitySLI(Frac(999, 1000)).obj,
        5)

CRITICAL_ENDPOINT_SLO ==
    ServiceLevelObjective(
        "critical-endpoints", "SLO for critical endpoints (auth, payments, etc.)",
        LatencySLI(Float(20), Float(100), Float(200), Float(500)).obj,
        ErrorRateSLI(Frac(1, 1000), Frac(1, 10000)).obj,
        ThroughputSLI(Float(50), Float(5000)).obj,
        AvailabilitySLI(Frac(9999, 10000)).obj,
        1)

NON_CRITICAL_ENDPOINT_SLO ==
    ServiceLevelObjective(
        "non-critical-endpoints",
        "SLO for non-critical endpoints (analytics, reporting, etc.)",
        LatencySLI(Float(100), Float(500), Float(2000), Float(5000)).obj,
        ErrorRateSLI(Frac(5, 100), Frac(1, 100)).obj,
        ThroughputSLI(Float(10), Float(1000)).obj,
        AvailabilitySLI(Frac(99, 100)).obj,
        60)

\* the module's globals: name -> the object it is bound to
SloNames == {"ATLAS_API_SLO", "CRITICAL_ENDPOINT_SLO", "NON_CRITICAL_ENDPOINT_SLO"}
ImportedObjectives ==
    [n \in SloNames |->
        CASE n = "ATLAS_API_SLO" -> ATLAS_API_SLO
          [] n = "CRITICAL_ENDPOINT_SLO" -> CRITICAL_ENDPOINT_SLO
          [] n = "NON_CRITICAL_ENDPOINT_SLO" -> NON_CRITICAL_ENDPOINT_SLO]

\* ---- slo.py: get_slo_for_endpoint ----------------------------------------------
\* a str is the sequence of its characters
critical_patterns ==
    <<<<"/", "h", "e", "a", "l", "t", "h">>,
      <<"/", "a", "u", "t", "h">>,
      <<"/", "l", "o", "g", "i", "n">>,
      <<"/", "p", "a", "y", "m", "e", "n", "t", "s">>,
      <<"/", "t", "r", "a", "n", "s", "a", "c", "t", "i", "o", "n", "s">>>>

non_critical_patterns ==
    <<<<"/", "a", "n", "a", "l", "y", "t", "i", "c", "s">>,
      <<"/", "r", "e", "p", "o", "r", "t", "s">>,
      <<"/", "e", "x", "p", "o", "r", "t">>,
      <<"/", "b", "a", "t", "c", "h">>>>

\* pattern in endpoint
In(pattern, endpoint) ==
    \E i \in 0..(Len(endpoint) - Len(pattern)) :
        SubSeq(endpoint, i + 1, i + Len(pattern)) = pattern

\* for pattern in patterns: if pattern in endpoint: return ...
RECURSIVE FirstMatch(_, _, _)
FirstMatch(patterns, i, endpoint) ==
    IF i > Len(patterns) THEN 0
    ELSE IF In(patterns[i], endpoint) THEN i
    ELSE FirstMatch(patterns, i + 1, endpoint)

\* variant: the non-critical patterns are tried first
get_slo_for_endpoint_reversed(endpoint) ==
    IF FirstMatch(non_critical_patterns, 1, endpoint) # 0 THEN "NON_CRITICAL_ENDPOINT_SLO"
    ELSE IF FirstMatch(critical_patterns, 1, endpoint) # 0 THEN "CRITICAL_ENDPOINT_SLO"
    ELSE "ATLAS_API_SLO"

\* variant: the last critical pattern is not tried
get_slo_for_endpoint_short(endpoint) ==
    IF FirstMatch(SubSeq(critical_patterns, 1, Len(critical_patterns) - 1), 1, endpoint) # 0
    THEN "CRITICAL_ENDPOINT_SLO"
    ELSE IF FirstMatch(non_critical_patterns, 1, endpoint) # 0
    THEN "NON_CRITICAL_ENDPOINT_SLO"
    ELSE "ATLAS_API_SLO"

\* the result is the global the function returns: a reference, not a copy
get_slo_for_endpoint(endpoint) ==
    IF FirstMatch(critical_patterns, 1, endpoint) # 0 THEN "CRITICAL_ENDPOINT_SLO"
    ELSE IF FirstMatch(non_critical_patterns, 1, endpoint) # 0
    THEN "NON_CRITICAL_ENDPOINT_SLO"
    ELSE "ATLAS_API_SLO"

\* the endpoints looked up: up to MaxPieces of these pieces, one after the other
Fragments ==
    {<<"/", "h", "e", "a", "l", "t", "h">>,
     <<"/", "a", "u", "t", "h">>,
     <<"/", "l", "o", "g", "i", "n">>,
     <<"/", "p", "a", "y", "m", "e", "n", "t", "s">>,
     <<"/", "t", "r", "a", "n", "s", "a", "c", "t", "i", "o", "n", "s">>,
     <<"/", "a", "n", "a", "l", "y", "t", "i", "c", "s">>,
     <<"/", "r", "e", "p", "o", "r", "t", "s">>,
     <<"/", "e", "x", "p", "o", "r", "t">>,
     <<"/", "b", "a", "t", "c", "h">>,
     <<"/", "H", "e", "a", "l", "t", "h">>,
     <<"/", "R", "E", "P", "O", "R", "T", "S">>,
     <<"/", "a", "p", "i">>,
     <<"/", "u", "s", "e", "r", "s">>,
     <<"/", "h", "e", "a", "l">>,
     <<"t", "h">>}

RECURSIVE Joined(_)
Joined(pieces) == IF pieces = <<>> THEN <<>> ELSE Head(pieces) \o Joined(Tail(pieces))

Endpoints ==
    {Joined(ps) : ps \in UNION {[1..n -> Fragments] : n \in 0..MaxPieces}}

NoLookup == [endpoint |-> <<>>, slo |-> "none"]

\* ---- construction with validation ----------------------------------------------
\* variant: a success_threshold of 0 is accepted
CircuitBreakerConfig_init_lax(ft, rt, st) ==
    IF ft < 1 THEN ConstructionError
    ELSE IF rt < 1 THEN ConstructionError
    ELSE IF st < 0 THEN ConstructionError
    ELSE Constructed(CircuitBreakerConfig(ft, rt, st))

\* circuit_breaker.py lines 57-66
CircuitBreakerConfig_init(ft, rt, st) ==
    IF ft < 1 THEN ConstructionError
    ELSE IF rt < 1 THEN ConstructionError
    ELSE IF st < 1 THEN ConstructionError
    ELSE Constructed(CircuitBreakerConfig(ft, rt, st))

\* retry.py lines 50-63
RetryConfig_init(ma, bd, md, mu, j) ==
    IF ma < 1 THEN ConstructionError
    ELSE IF bd < 0 THEN ConstructionError
    ELSE IF md < bd THEN ConstructionError
    ELSE IF Lt(mu, Float(1)) THEN ConstructionError
    ELSE Constructed(RetryConfig(ma, bd, md, mu, j))

\* the float arguments tried
Floats == {NaN, Float(-1), Float(0), Frac(1, 2), Float(1), Float(2)}

NotBuilt == [class |-> "none", args |-> <<>>, out |-> Pending]

\* ---- two breakers, one driven through call_sync, one through call_async --------
NewBreakerValue ==
    [state |-> CLOSED, failure_count |-> 0, success_count |-> 0,
     last_failure_time |-> None, opened_at |-> None,
     gauge |-> StateValue(CLOSED), failures |-> 0]

NewTwin ==
    [sync |-> NewBreakerValue, async |-> NewBreakerValue, pc |-> "idle",
     sync_admitted |-> FALSE, async_admitted |-> FALSE,
     sync_log |-> <<>>, async_log |-> <<>>, started |-> 0]

\* ---- LoadSheddingMiddleware ----------------------------------------------------
\* __init__ (lines 286-288); max_concurrent_requests is stored as given
LoadSheddingMiddleware(max_concurrent_requests) ==
    [max_concurrent_requests |-> max_concurrent_requests, current_requests |-> 0]

\* dispatch, lines 303-317: the test, the 429 response or the increment; there
\* is no await in it, so on one event loop it runs uninterrupted
dispatch_enter(m) ==
    IF m.current_requests >= m.max_concurrent_requests
    THEN [self |-> m, admitted |-> FALSE]
    ELSE [self |-> [m EXCEPT !.current_requests = @ + 1], admitted |-> TRUE]

\* dispatch, lines 319-323: call_next returned; the finally clause
dispatch_returned(m) == [m EXCEPT !.current_requests = @ - 1]

\* variant: the counter is released only when call_next returns
dispatch_raised_leaking(m) == m

\* dispatch, lines 319-323: call_next raised; the finally clause
dispatch_raised(m) == [m EXCEPT !.current_requests = @ - 1]

\* the requests that can be in dispatch at the same time
Requests == 1..(MaxConcurrent + 1)

\* answers is history: how each finished dispatch ended, oldest first
Shedding(m) ==
    [self |-> m, pc |-> [r \in Requests |-> "idle"], arrived |-> 0, handler_calls |-> 0,
     answers |-> <<>>]

\* no middleware is installed (main.py line 146 is commented out)
NotShedding == Shedding(LoadSheddingMiddleware(1000))

\* nothing of slo.py is used, nothing is constructed, no second breaker, no
\* load shedding
NoOther ==
    /\ objectives = ImportedObjectives
    /\ lookup = NoLookup
    /\ built = NotBuilt
    /\ twin = NewTwin
    /\ shed = NotShedding

\* ---- state after construction --------------------------------------------
\* st and period are history: self.state and self.opened_at when func was invoked
Idle ==
    [pc |-> "idle", conv |-> "none", reg |-> 0, exc |-> NoError, st |-> "none",
     period |-> None]

\* one finished call, as its caller and the operation saw it:
\*   st      self.state when func was invoked (OPEN for a rejected call)
\*   invoked whether func was invoked
\*   op_err  what func raised (NoError when it returned or was not invoked)
\*   out/err how execute ended: "returned", or "raised" with the error
Finished(st, inv, op_err, out, err) ==
    [st |-> st, invoked |-> inv, op_err |-> op_err, out |-> out, err |-> err]

\* CircuitBreaker.__init__, whatever the configuration
NewBreaker ==
    /\ state = CLOSED
    /\ failure_count = 0
    /\ success_count = 0
    /\ last_failure_time = None
    /\ opened_at = None
    /\ circuit_breaker_state = StateValue(CLOSED)
    /\ circuit_breaker_failures_total = 0
    /\ now = 0
    /\ calls = [c \in Callers |-> Idle]
    /\ log = <<>>
    /\ started = 0
    /\ invoked = 0

Init ==
    /\ config \in Configs
    /\ exceptions \in FailureSets
    /\ NewBreaker
    /\ NoRetry
    /\ NoOther

\* ---- actions ---------------------------------------------------------------
\* the clock advances
Tick ==
    /\ now < MaxTime
    /\ now' = now + 1
    /\ UNCHANGED <<config, exceptions, breaker, metrics, calls, log, started, invoked,
                   retry_state, other_state>>

\* caller c starts execute: the code up to the invocation of func
Execute(c, conv, max) ==
    /\ calls[c].pc = "idle"
    /\ started < max
    /\ LET r == Enter(conv, Self, now)
       IN  /\ Becomes(r.self)
           /\ started' = started + 1
           /\ IF r.admitted
              THEN /\ calls' = [calls EXCEPT ![c] = [Idle EXCEPT !.pc = "running", !.conv = conv,
                                                                  !.st = r.self.state,
                                                                  !.period = r.self.opened_at]]
                   /\ invoked' = invoked + 1
                   /\ UNCHANGED log
              ELSE /\ log' = Append(log, Finished(r.self.state, FALSE, NoError, "raised", r.raised))
                   /\ UNCHANGED <<calls, invoked>>
    /\ UNCHANGED fixed

\* func returns: the code from the return of func to the return of execute
Returns(c) ==
    /\ calls[c].pc = "running"
    /\ Becomes(Success(calls[c].conv, Self))
    /\ calls' = [calls EXCEPT ![c] = Idle]
    /\ log' = Append(log, Finished(calls[c].st, TRUE, NoError, "returned", NoError))
    /\ UNCHANGED <<fixed, started, invoked>>

\* func raises e: the except clause, or none when e is not caught
Raises(c, e) ==
    /\ calls[c].pc = "running"
    /\ LET r == Failure(calls[c].conv, Self, now, e)
       IN  /\ Becomes(r.self)
           /\ log' = Append(log, Finished(calls[c].st, TRUE, e, "raised", r.raised))
    /\ calls' = [calls EXCEPT ![c] = Idle]
    /\ UNCHANGED <<fixed, started, invoked>>

\* ---- sequential use: one caller --------------------------------------------
SeqExecute == \E conv \in Conventions : Execute(1, conv, MaxCalls)
SeqReturns == Returns(1)
SeqRaises == \E e \in OpErrors : Raises(1, e)

Next == Tick \/ SeqExecute \/ SeqReturns \/ SeqRaises

Spec == Init /\ [][Next]_vars

\* ---- overlapping call_async invocations on one event loop -----------------
AsyncExecute == \E c \in Callers : Execute(c, "async", MaxAsyncCalls)
AsyncReturns == \E c \in Callers : Returns(c)
AsyncRaises == \E c \in Callers : \E e \in OpErrors : Raises(c, e)

NextAsync == Tick \/ AsyncExecute \/ AsyncReturns \/ AsyncRaises

SpecAsync == Init /\ [][NextAsync]_vars


\* ---- parallel threads in call_sync, one statement per step -----------------
\* A thread's position is the line of circuit_breaker.py it is about to run;
\* "x += 1" is a read (r) into the thread's register and a write (w) from it,
\* and _update_metrics is the read of self.state (r) and the gauge's set (w).
At(t, l) == calls[t].pc = l
Goto(t, l) == calls' = [calls EXCEPT ![t].pc = l]
GotoWith(t, l, v) == calls' = [calls EXCEPT ![t].pc = l, ![t].reg = v]
history == <<log, started, invoked>>

\* return result (line 175)
ThreadReturn(t) ==
    /\ calls' = [calls EXCEPT ![t] = Idle]
    /\ log' = Append(log, Finished(calls[t].st, TRUE, NoError, "returned", NoError))
    /\ UNCHANGED <<started, invoked>>

\* raise (line 197), or the propagation of an error no clause handled
ThreadRaise(t, op_err, err) ==
    /\ calls' = [calls EXCEPT ![t] = Idle]
    /\ log' = Append(log, Finished(calls[t].st, TRUE, op_err, "raised", err))
    /\ UNCHANGED <<started, invoked>>

\* the call of call_sync
ThreadBegins ==
    \E t \in Callers :
        /\ At(t, "idle")
        /\ started < MaxThreadCalls
        /\ calls' = [calls EXCEPT ![t] = [Idle EXCEPT !.pc = "l121", !.conv = "sync"]]
        /\ started' = started + 1
        /\ UNCHANGED <<fixed, breaker, metrics, log, invoked>>

\* line 146 -> line 121: if self.state != CircuitState.OPEN: return False
Thread_l121 ==
    \E t \in Callers :
        /\ At(t, "l121")
        /\ IF state # OPEN THEN Goto(t, "l153") ELSE Goto(t, "l124")
        /\ UNCHANGED <<fixed, breaker, metrics, history>>

\* lines 124-128: opened_at is None, elapsed >= recovery_timeout_seconds
Thread_l124 ==
    \E t \in Callers :
        /\ At(t, "l124")
        /\ IF opened_at = None THEN Goto(t, "l153")
           ELSE IF (now - opened_at) >= config.recovery_timeout_seconds
           THEN Goto(t, "l147")
           ELSE Goto(t, "l153")
        /\ UNCHANGED <<fixed, breaker, metrics, history>>

\* line 147: self.state = CircuitState.HALF_OPEN
Thread_l147 ==
    \E t \in Callers :
        /\ At(t, "l147")
        /\ state' = HALF_OPEN
        /\ Goto(t, "l148")
        /\ UNCHANGED <<fixed, failure_count, success_count, last_failure_time, opened_at,
                       metrics, history>>

\* line 148: self.success_count = 0
Thread_l148 ==
    \E t \in Callers :
        /\ At(t, "l148")
        /\ success_count' = 0
        /\ Goto(t, "l149r")
        /\ UNCHANGED <<fixed, state, failure_count, last_failure_time, opened_at,
                       metrics, history>>

\* lines 149, 167, 192 -> lines 112-116: state_value = {...}[self.state]
Thread_update_metrics_read ==
    \E t \in Callers : \E l \in {"l149", "l167", "l192"} :
        /\ At(t, l \o "r")
        /\ GotoWith(t, l \o "w", StateValue(state))
        /\ UNCHANGED <<fixed, breaker, metrics, history>>

\* line 149 -> line 117: circuit_breaker_state.labels(...).set(state_value)
Thread_l149w ==
    \E t \in Callers :
        /\ At(t, "l149w")
        /\ circuit_breaker_state' = calls[t].reg
        /\ Goto(t, "l153")
        /\ UNCHANGED <<fixed, breaker, circuit_breaker_failures_total, history>>

\* lines 153-159: if self.state == CircuitState.OPEN: raise Exception(...);
\* otherwise func is invoked
Thread_l153 ==
    \E t \in Callers :
        /\ At(t, "l153")
        /\ IF state = OPEN
           THEN /\ calls' = [calls EXCEPT ![t] = Idle]
                /\ log' = Append(log, Finished(OPEN, FALSE, NoError, "raised", CircuitOpenError))
                /\ UNCHANGED invoked
           ELSE /\ calls' = [calls EXCEPT ![t].pc = "running", ![t].st = state,
                                          ![t].period = opened_at]
                /\ invoked' = invoked + 1
                /\ UNCHANGED log
        /\ UNCHANGED <<fixed, breaker, metrics, started>>

\* line 159: func returns
ThreadFuncReturns ==
    \E t \in Callers :
        /\ At(t, "running")
        /\ calls[t].conv = "sync"
        /\ Goto(t, "l162")
        /\ UNCHANGED <<fixed, breaker, metrics, history>>

\* line 159: func raises e; line 177: except self.exceptions as e
ThreadFuncRaises ==
    \E t \in Callers : \E e \in OpErrors :
        /\ At(t, "running")
        /\ calls[t].conv = "sync"
        /\ IF Catches(e)
           THEN /\ calls' = [calls EXCEPT ![t].pc = "l179r", ![t].exc = e]
                /\ UNCHANGED history
           ELSE ThreadRaise(t, e, e)
        /\ UNCHANGED <<fixed, breaker, metrics>>

\* line 162: if self.state == CircuitState.HALF_OPEN
Thread_l162 ==
    \E t \in Callers :
        /\ At(t, "l162")
        /\ IF state = HALF_OPEN THEN Goto(t, "l163r") ELSE Goto(t, "l171")
        /\ UNCHANGED <<fixed, breaker, metrics, history>>

\* line 163: self.success_count += 1, the read
Thread_l163r ==
    \E t \in Callers :
        /\ At(t, "l163r")
        /\ GotoWith(t, "l163w", success_count)
        /\ UNCHANGED <<fixed, breaker, metrics, history>>

\* line 163: self.success_count += 1, the write
Thread_l163w ==
    \E t \in Callers :
        /\ At(t, "l163w")
        /\ success_count' = calls[t].reg + 1
        /\ Goto(t, "l164")
        /\ UNCHANGED <<fixed, state, failure_count, last_failure_time, opened_at,
                       metrics, history>>

\* line 164: if self.success_count >= self.config.success_threshold
Thread_l164 ==
    \E t \in Callers :
        /\ At(t, "l164")
        /\ IF success_count >= config.success_threshold
           THEN Goto(t, "l165") /\ UNCHANGED history
           ELSE ThreadReturn(t)
        /\ UNCHANGED <<fixed, breaker, metrics>>

\* line 165: self.state = CircuitState.CLOSED
Thread_l165 ==
    \E t \in Callers :
        /\ At(t, "l165")
        /\ state' = CLOSED
        /\ Goto(t, "l166")
        /\ UNCHANGED <<fixed, failure_count, success_count, last_failure_time, opened_at,
                       metrics, history>>

\* line 166: self.failure_count = 0
Thread_l166 ==
    \E t \in Callers :
        /\ At(t, "l166")
        /\ failure_count' = 0
        /\ Goto(t, "l167r")
        /\ UNCHANGED <<fixed, state, success_count, last_failure_time, opened_at,
                       metrics, history>>

\* line 167 -> line 117, then return result
Thread_l167w ==
    \E t \in Callers :
        /\ At(t, "l167w")
        /\ circuit_breaker_state' = calls[t].reg
        /\ ThreadReturn(t)
        /\ UNCHANGED <<fixed, breaker, circuit_breaker_failures_total>>

\* line 171: elif self.state == CircuitState.CLOSED
Thread_l171 ==
    \E t \in Callers :
        /\ At(t, "l171")
        /\ IF state = CLOSED
           THEN Goto(t, "l173") /\ UNCHANGED history
           ELSE ThreadReturn(t)
        /\ UNCHANGED <<fixed, breaker, metrics>>

\* line 173: self.failure_count = 0, then return result
Thread_l173 ==
    \E t \in Callers :
        /\ At(t, "l173")
        /\ failure_count' = 0
        /\ ThreadReturn(t)
        /\ UNCHANGED <<fixed, state, success_count, last_failure_time, opened_at, metrics>>

\* line 179: self.failure_count += 1, the read
Thread_l179r ==
    \E t \in Callers :
        /\ At(t, "l179r")
        /\ GotoWith(t, "l179w", failure_count)
        /\ UNCHANGED <<fixed, breaker, metrics, history>>

\* line 179: self.failure_count += 1, the write
Thread_l179w ==
    \E t \in Callers :
        /\ At(t, "l179w")
        /\ failure_count' = calls[t].reg + 1
        /\ Goto(t, "l180")
        /\ UNCHANGED <<fixed, state, success_count, last_failure_time, opened_at,
                       metrics, history>>

\* line 180: self.last_failure_time = time.time()
Thread_l180 ==
    \E t \in Callers :
        /\ At(t, "l180")
        /\ last_failure_time' = now
        /\ Goto(t, "l181")
        /\ UNCHANGED <<fixed, state, failure_count, success_count, opened_at,
                       metrics, history>>

\* line 181: circuit_breaker_failures_total.labels(...).inc()
\* (prometheus_client's Counter.inc is atomic)
Thread_l181 ==
    \E t \in Callers :
        /\ At(t, "l181")
        /\ circuit_breaker_failures_total' = circuit_breaker_failures_total + 1
        /\ Goto(t, "l189")
        /\ UNCHANGED <<fixed, breaker, circuit_breaker_state, history>>

\* line 189: if self.failure_count >= self.config.failure_threshold; else raise
Thread_l189 ==
    \E t \in Callers :
        /\ At(t, "l189")
        /\ IF failure_count >= config.failure_threshold
           THEN Goto(t, "l190") /\ UNCHANGED history
           ELSE ThreadRaise(t, calls[t].exc, calls[t].exc)
        /\ UNCHANGED <<fixed, breaker, metrics>>

\* line 190: self.state = CircuitState.OPEN
Thread_l190 ==
    \E t \in Callers :
        /\ At(t, "l190")
        /\ state' = OPEN
        /\ Goto(t, "l191")
        /\ UNCHANGED <<fixed, failure_count, success_count, last_failure_time, opened_at,
                       metrics, history>>

\* line 191: self.opened_at = time.time()
Thread_l191 ==
    \E t \in Callers :
        /\ At(t, "l191")
        /\ opened_at' = now
        /\ Goto(t, "l192r")
        /\ UNCHANGED <<fixed, state, failure_count, success_count, last_failure_time,
                       metrics, history>>

\* line 192 -> line 117, then raise (line 197)
Thread_l192w ==
    \E t \in Callers :
        /\ At(t, "l192w")
        /\ circuit_breaker_state' = calls[t].reg
        /\ ThreadRaise(t, calls[t].exc, calls[t].exc)
        /\ UNCHANGED <<fixed, breaker, circuit_breaker_failures_total>>

NextThreads ==
    \/ Tick
    \/ ThreadBegins
    \/ Thread_l121 \/ Thread_l124 \/ Thread_l147 \/ Thread_l148
    \/ Thread_update_metrics_read \/ Thread_l149w
    \/ Thread_l153
    \/ ThreadFuncReturns \/ ThreadFuncRaises
    \/ Thread_l162 \/ Thread_l163r \/ Thread_l163w \/ Thread_l164
    \/ Thread_l165 \/ Thread_l166 \/ Thread_l167w
    \/ Thread_l171 \/ Thread_l173
    \/ Thread_l179r \/ Thread_l179w \/ Thread_l180 \/ Thread_l181 \/ Thread_l189
    \/ Thread_l190 \/ Thread_l191 \/ Thread_l192w

SpecThreads == Init /\ [][NextThreads]_vars

\* ---- one run of the retry wrapper --------------------------------------------
\* CircuitBreakerConfig() and a breaker nobody calls
UnusedBreaker ==
    /\ config = CircuitBreakerConfig(5, 60, 2)
    /\ exceptions = {"Exception"}
    /\ NewBreaker

breaker_state == <<config, exceptions, breaker, metrics, now, calls, log, started, invoked>>

InitRetry ==
    /\ UnusedBreaker
    /\ retry_config \in RetryConfigs
    /\ retry_exceptions \in FailureSets
    /\ on_retry \in BOOLEAN
    /\ run = NotCalled
    /\ retry_attempts_total = [l \in 1..MaxAttempts |-> 0]
    /\ events = <<>>
    /\ calc = NoCalc
    /\ NoOther

Does(p, before) ==
    /\ run' = p.run
    /\ events' = events \o before \o p.events
    /\ retry_attempts_total' =
           [l \in DOMAIN retry_attempts_total |->
               IF l \in p.inc THEN retry_attempts_total[l] + 1 ELSE retry_attempts_total[l]]
    /\ UNCHANGED <<breaker_state, retry_config, retry_exceptions, on_retry, calc,
                   other_state>>

\* the decorated function is called: last_exception = None, the loop begins
RetryCall ==
    \E conv \in Conventions :
        /\ run.pc = "idle"
        /\ Does(Piece([NotCalled EXCEPT !.pc = "loop", !.conv = conv], <<>>, {}), <<>>)

\* the for statement
RetryNext ==
    /\ run.pc = "loop"
    /\ Does(RetryNextPiece(run), <<>>)

\* func returns
RetryFuncReturns ==
    /\ run.pc = "running"
    /\ Does(RetryReturned(run), <<Event("return", run.attempt, RetryNone)>>)

\* func raises e; random.uniform returns factor when jitter is on
RetryFuncRaises ==
    \E e \in FuncErrors(run.attempt) :
        \E factor \in IF retry_config.jitter THEN JitterFactors ELSE {NoJitter} :
            /\ run.pc = "running"
            /\ Does(RetryExcept(run, e, factor), <<Event("fail", run.attempt, e)>>)

\* on_retry returns
RetryCallbackReturns ==
    /\ run.pc = "on_retry"
    /\ Does(RetryCallbackReturned(run), <<>>)

\* on_retry raises
RetryCallbackRaises ==
    \E ce \in CallbackErrors(run.attempt) :
        /\ run.pc = "on_retry"
        /\ Does(RetryCallbackRaised(run, ce), <<Event("on_retry_raised", run.attempt + 1, ce)>>)

\* time.sleep / asyncio.sleep returns
RetrySleeps ==
    /\ run.pc = "sleep"
    /\ Does(RetrySlept(run), <<>>)

NextRetry ==
    \/ RetryCall \/ RetryNext \/ RetryFuncReturns \/ RetryFuncRaises
    \/ RetryCallbackReturns \/ RetryCallbackRaises \/ RetrySleeps

SpecRetry == InitRetry /\ [][NextRetry]_vars

\* func, on_retry and the sleep terminate, and the decorated function is called
SpecRetryFair == SpecRetry /\ WF_vars(NextRetry)

\* ---- calls of calculate_delay_ms ------------------------------------------------
InitDelay ==
    /\ UnusedBreaker
    /\ retry_config \in RetryConfigs
    /\ retry_exceptions = {"Exception"}
    /\ on_retry = FALSE
    /\ run = NotCalled
    /\ retry_attempts_total = [l \in 1..MaxAttempts |-> 0]
    /\ events = <<>>
    /\ calc = NoCalc
    /\ NoOther

CalculateDelay ==
    \E attempt \in 0..MaxAttemptArg :
        \E factor \in IF retry_config.jitter THEN JitterFactors ELSE {NoJitter} :
            /\ calc' = [attempt |-> attempt, factor |-> factor,
                        result |-> calculate_delay_ms(retry_config, attempt, factor)]
            /\ UNCHANGED <<breaker_state, retry_config, retry_exceptions, on_retry, run,
                           retry_attempts_total, events, other_state>>

NextDelay == CalculateDelay

SpecDelay == InitDelay /\ [][NextDelay]_vars

\* ---- slo.py: one call of get_slo_for_endpoint ----------------------------------
InitSlo ==
    /\ UnusedBreaker
    /\ NoRetry
    /\ objectives = ImportedObjectives
    /\ lookup \in {[endpoint |-> e, slo |-> "none"] : e \in Endpoints}
    /\ built = NotBuilt
    /\ twin = NewTwin
    /\ shed = NotShedding

\* slo = get_slo_for_endpoint(endpoint)
Lookup ==
    /\ lookup.slo = "none"
    /\ lookup' = [lookup EXCEPT !.slo = get_slo_for_endpoint(lookup.endpoint)]
    /\ UNCHANGED <<breaker_state, retry_state, objectives, built, twin, shed>>

NextSlo == Lookup

SpecSlo == InitSlo /\ [][NextSlo]_vars

\* ---- slo.py: lookups, and what a caller can do with the object it got ---------
InitCallers ==
    /\ UnusedBreaker
    /\ NoRetry
    /\ NoOther

\* slo = get_slo_for_endpoint(endpoint), for the endpoints of one piece
LookupAgain ==
    \E endpoint \in Fragments \cup {<<>>} :
        /\ lookup' = [endpoint |-> endpoint, slo |-> get_slo_for_endpoint(endpoint)]
        /\ UNCHANGED <<breaker_state, retry_state, objectives, built, twin, shed>>

\* slo.window_minutes = 0, on the object the last lookup returned: the
\* dataclasses are not frozen, the assignment is an ordinary one
CallerSetsWindow ==
    /\ lookup.slo \in SloNames
    /\ objectives' = [objectives EXCEPT ![lookup.slo].window_minutes = 0]
    /\ UNCHANGED <<breaker_state, retry_state, lookup, built, twin, shed>>

\* slo.latency.p50_ms = 100000.0: __post_init__ does not run again
CallerSetsLatency ==
    /\ lookup.slo \in SloNames
    /\ objectives' = [objectives EXCEPT ![lookup.slo].latency.p50_ms = Float(100000)]
    /\ UNCHANGED <<breaker_state, retry_state, lookup, built, twin, shed>>

NextCallers == LookupAgain \/ CallerSetsWindow \/ CallerSetsLatency

SpecCallers == InitCallers /\ [][NextCallers]_vars

\* ---- construction of the SLIs and of the two configurations -------------------
\* the calls tried: a class and its arguments
Call(class, args) == [class |-> class, args |-> args, out |-> Pending]

BuildCalls ==
    {Call("LatencySLI", <<p50, p95, p99, p999>>) : p50 \in Floats, p95 \in Floats,
                                                   p99 \in Floats, p999 \in Floats}
    \cup {Call("ErrorRateSLI", <<e, x>>) : e \in Floats, x \in Floats}
    \cup {Call("ThroughputSLI", <<lo, hi>>) : lo \in Floats, hi \in Floats}
    \cup {Call("AvailabilitySLI", <<a>>) : a \in Floats}
    \cup {Call("CircuitBreakerConfig", <<ft, rt, st>>) :
            ft \in -1..MaxThreshold, rt \in -1..MaxTimeout, st \in -1..MaxThreshold}
    \cup {Call("RetryConfig", <<ma, bd, md, mu, j>>) :
            ma \in 0..MaxAttempts, bd \in -1..MaxBaseDelay, md \in -1..MaxDelayCap,
            mu \in Multipliers \cup {NaN, Frac(1, 2)}, j \in BOOLEAN}

InitBuild ==
    /\ UnusedBreaker
    /\ NoRetry
    /\ objectives = ImportedObjectives
    /\ lookup = NoLookup
    /\ built \in BuildCalls
    /\ twin = NewTwin
    /\ shed = NotShedding

Builds(class, out) ==
    /\ built.class = class
    /\ built.out = Pending
    /\ built' = [built EXCEPT !.out = out]
    /\ UNCHANGED <<breaker_state, retry_state, objectives, lookup, twin, shed>>

BuildLatencySLI ==
    Builds("LatencySLI",
           LatencySLI(built.args[1], built.args[2], built.args[3], built.args[4]))

BuildErrorRateSLI ==
    Builds("ErrorRateSLI", ErrorRateSLI(built.args[1], built.args[2]))

BuildThroughputSLI ==
    Builds("ThroughputSLI", ThroughputSLI(built.args[1], built.args[2]))

BuildAvailabilitySLI ==
    Builds("AvailabilitySLI", AvailabilitySLI(built.args[1]))

BuildCircuitBreakerConfig ==
    Builds("CircuitBreakerConfig",
           CircuitBreakerConfig_init(built.args[1], built.args[2], built.args[3]))

BuildRetryConfig ==
    Builds("RetryConfig",
           RetryConfig_init(built.args[1], built.args[2], built.args[3], built.args[4],
                            built.args[5]))

\* calculate_delay_ms on the RetryConfig just constructed
CalculateBuilt ==
    /\ built.class = "RetryConfig"
    /\ built.out.error = "none"
    /\ \E attempt \in 0..MaxAttemptArg :
        \E factor \in IF built.out.obj.jitter THEN JitterFactors ELSE {NoJitter} :
            calc' = [attempt |-> attempt, factor |-> factor,
                     result |-> calculate_delay_ms(built.out.obj, attempt, factor)]
    /\ UNCHANGED <<breaker_state, retry_config, retry_exceptions, on_retry, run,
                   retry_attempts_total, events, other_state>>

NextBuild ==
    \/ BuildLatencySLI \/ BuildErrorRateSLI \/ BuildThroughputSLI \/ BuildAvailabilitySLI
    \/ BuildCircuitBreakerConfig \/ BuildRetryConfig \/ CalculateBuilt

SpecBuild == InitBuild /\ [][NextBuild]_vars

\* ---- the same calls on two breakers: call_sync on one, call_async on the other --
InitTwin ==
    /\ config \in Configs
    /\ exceptions \in FailureSets
    /\ NewBreaker
    /\ NoRetry
    /\ NoOther

TwinEntry(out, err) == [out |-> out, err |-> err]
TwinUnchanged ==
    UNCHANGED <<breaker_state, retry_state, objectives, lookup, built, shed>>

\* both callers call execute at the same clock reading
TwinExecute ==
    /\ twin.pc = "idle"
    /\ twin.started < MaxTwinCalls
    /\ LET s == call_sync_enter(twin.sync, now)
           a == call_async_enter(twin.async, now)
       IN  twin' = [twin EXCEPT
                      !.sync = s.self,
                      !.async = a.self,
                      !.started = @ + 1,
                      !.sync_admitted = s.admitted,
                      !.async_admitted = a.admitted,
                      !.sync_log = IF s.admitted THEN @
                                   ELSE Append(@, TwinEntry("raised", s.raised)),
                      !.async_log = IF a.admitted THEN @
                                    ELSE Append(@, TwinEntry("raised", a.raised)),
                      !.pc = IF s.admitted \/ a.admitted THEN "running" ELSE "idle"]
    /\ TwinUnchanged

\* func returns in both
TwinReturns ==
    /\ twin.pc = "running"
    /\ twin' = [twin EXCEPT
                  !.sync = IF twin.sync_admitted THEN call_sync_success(@) ELSE @,
                  !.async = IF twin.async_admitted THEN call_async_success(@) ELSE @,
                  !.sync_log = IF twin.sync_admitted
                               THEN Append(@, TwinEntry("returned", NoError)) ELSE @,
                  !.async_log = IF twin.async_admitted
                                THEN Append(@, TwinEntry("returned", NoError)) ELSE @,
                  !.pc = "idle"]
    /\ TwinUnchanged

\* func raises e in both, at the same clock reading
TwinRaises ==
    \E e \in OpErrors :
        /\ twin.pc = "running"
        /\ LET s == call_sync_failure(twin.sync, now, e)
               a == call_async_failure(twin.async, now, e)
           IN  twin' = [twin EXCEPT
                          !.sync = IF twin.sync_admitted THEN s.self ELSE @,
                          !.async = IF twin.async_admitted THEN a.self ELSE @,
                          !.sync_log = IF twin.sync_admitted
                                       THEN Append(@, TwinEntry("raised", s.raised)) ELSE @,
                          !.async_log = IF twin.async_admitted
                                        THEN Append(@, TwinEntry("raised", a.raised)) ELSE @,
                          !.pc = "idle"]
        /\ TwinUnchanged

NextTwin == Tick \/ TwinExecute \/ TwinReturns \/ TwinRaises

SpecTwin == InitTwin /\ [][NextTwin]_vars

\* ---- calls without end: func raises up to some time, then always returns -------
\* The callers never stop calling, so the history is not recorded here. func may
\* raise as long as a full recovery timeout still fits on the clock after it,
\* and raises a counted failure MaxLiveFailures times at most.
FailUntil == MaxLiveTime - MaxTimeout

LiveUnchanged == UNCHANGED <<log, started, invoked, retry_state, other_state>>

\* time.time() advances
LiveTick ==
    /\ now < MaxLiveTime
    /\ now' = now + 1
    /\ UNCHANGED <<config, exceptions, breaker, metrics, calls>>
    /\ LiveUnchanged

\* a blocking call_sync keeps the event loop: nothing else runs until it ends
LoopFree == \A c \in Callers : ~(calls[c].pc = "running" /\ calls[c].conv = "sync")

\* caller c calls call_sync or call_async: the code up to the invocation of func
LiveExecute ==
    \E c \in Callers : \E conv \in Conventions :
        /\ calls[c].pc = "idle"
        /\ LoopFree
        /\ LET r == Enter(conv, Self, now)
           IN  /\ Becomes(r.self)
               /\ calls' = IF r.admitted
                           THEN [calls EXCEPT ![c] = [Idle EXCEPT !.pc = "running",
                                                                  !.conv = conv,
                                                                  !.st = r.self.state,
                                                                  !.period = r.self.opened_at]]
                           ELSE calls
        /\ UNCHANGED <<config, exceptions, now>>
        /\ LiveUnchanged

\* the call whose func can finish now: the blocking one if there is one
CanFinish(c) ==
    /\ calls[c].pc = "running"
    /\ LoopFree \/ calls[c].conv = "sync"

\* func returns
LiveReturns ==
    \E c \in Callers :
        /\ CanFinish(c)
        /\ Becomes(Success(calls[c].conv, Self))
        /\ calls' = [calls EXCEPT ![c] = Idle]
        /\ UNCHANGED <<config, exceptions, now>>
        /\ LiveUnchanged

\* func raises e
LiveRaises ==
    \E c \in Callers : \E e \in OpErrors :
        /\ now <= FailUntil
        /\ Catches(e) => circuit_breaker_failures_total < MaxLiveFailures
        /\ CanFinish(c)
        /\ Becomes(Failure(calls[c].conv, Self, now, e).self)
        /\ calls' = [calls EXCEPT ![c] = Idle]
        /\ UNCHANGED <<config, exceptions, now>>
        /\ LiveUnchanged

NextLive == LiveTick \/ LiveExecute \/ LiveReturns \/ LiveRaises

\* time keeps advancing, execute keeps being called, func terminates
SpecLive ==
    /\ Init
    /\ [][NextLive]_vars
    /\ WF_vars(LiveTick)
    /\ WF_vars(LiveExecute)
    /\ WF_vars(LiveReturns)

\* ---- the retry wrapper around a breaker-protected operation ---------------------
\* The decorated func is breaker.call_sync(op) under retry_sync and
\* breaker.call_async(op) under retry_async; op always raises an error the
\* breaker counts, every error is retried, and the clock stands still.
ComposedRetryConfigs ==
    {RetryConfig(ma, 1, MaxDelayCap, [num |-> 2, den |-> 1], FALSE) : ma \in 1..MaxAttempts}

InitCompose ==
    /\ config \in Configs
    /\ exceptions \in FailureSets
    /\ NewBreaker
    /\ retry_config \in ComposedRetryConfigs
    /\ retry_exceptions = {"Exception"}
    /\ on_retry \in BOOLEAN
    /\ run = NotCalled
    /\ retry_attempts_total = [l \in 1..MaxAttempts |-> 0]
    /\ events = <<>>
    /\ calc = NoCalc
    /\ NoOther

\* the error the wrapper's except clause sees
AsSeenByWrapper(e) == [kind |-> e.kind, origin |-> e.origin, attempt |-> run.attempt]

\* the wrapper's except clause after func (the breaker) raised err
WrapperCatches(err) ==
    LET p == RetryExcept(run, AsSeenByWrapper(err), NoJitter)
    IN  /\ run' = p.run
        /\ events' = events \o <<Event("fail", run.attempt, AsSeenByWrapper(err))>> \o p.events
        /\ retry_attempts_total' =
               [l \in DOMAIN retry_attempts_total |->
                   IF l \in p.inc THEN retry_attempts_total[l] + 1
                   ELSE retry_attempts_total[l]]

ComposeUnchanged ==
    UNCHANGED <<config, exceptions, now, retry_config, retry_exceptions, on_retry, calc,
                other_state>>

\* the wrapper has invoked func: the breaker's code up to the invocation of op
ComposeEnter ==
    /\ run.pc = "running"
    /\ calls[1].pc = "idle"
    /\ LET r == Enter(run.conv, Self, now)
       IN  /\ Becomes(r.self)
           /\ started' = started + 1
           /\ IF r.admitted
              THEN /\ calls' = [calls EXCEPT ![1] = [Idle EXCEPT !.pc = "running",
                                                                  !.conv = run.conv,
                                                                  !.st = r.self.state,
                                                                  !.period = r.self.opened_at]]
                   /\ invoked' = invoked + 1
                   /\ UNCHANGED <<log, run, events, retry_attempts_total>>
              ELSE /\ log' = Append(log, Finished(r.self.state, FALSE, NoError, "raised",
                                                  r.raised))
                   /\ WrapperCatches(r.raised)
                   /\ UNCHANGED <<calls, invoked>>
    /\ ComposeUnchanged

\* op raises an error the breaker counts: the breaker's except clause, then the
\* wrapper's
ComposeOpRaises ==
    \E e \in {x \in OpErrors : Catches(x)} :
        /\ run.pc = "running"
        /\ calls[1].pc = "running"
        /\ LET r == Failure(calls[1].conv, Self, now, e)
           IN  /\ Becomes(r.self)
               /\ log' = Append(log, Finished(calls[1].st, TRUE, e, "raised", r.raised))
               /\ WrapperCatches(r.raised)
        /\ calls' = [calls EXCEPT ![1] = Idle]
        /\ UNCHANGED <<started, invoked>>
        /\ ComposeUnchanged

NextCompose ==
    \/ RetryCall \/ RetryNext \/ ComposeEnter \/ ComposeOpRaises
    \/ RetryCallbackReturns \/ RetryCallbackRaises \/ RetrySleeps

SpecCompose == InitCompose /\ [][NextCompose]_vars

\* ---- requests through LoadSheddingMiddleware on one event loop -----------------
InitShed ==
    /\ UnusedBreaker
    /\ NoRetry
    /\ objectives = ImportedObjectives
    /\ lookup = NoLookup
    /\ built = NotBuilt
    /\ twin = NewTwin
    /\ shed \in {Shedding(LoadSheddingMiddleware(max)) : max \in -1..MaxConcurrent}

ShedUnchanged == UNCHANGED <<breaker_state, retry_state, objectives, lookup, built, twin>>

\* a request reaches dispatch: it is answered 429, or call_next is awaited
RequestArrives ==
    \E r \in Requests :
        /\ shed.pc[r] = "idle"
        /\ shed.arrived < MaxArrivals
        /\ LET d == dispatch_enter(shed.self)
           IN  shed' = IF d.admitted
                       THEN [shed EXCEPT !.self = d.self, !.pc[r] = "handling",
                                         !.arrived = @ + 1, !.handler_calls = @ + 1]
                       ELSE [shed EXCEPT !.self = d.self, !.arrived = @ + 1,
                                         !.answers = Append(@, 429)]
        /\ ShedUnchanged

\* call_next returns a response
HandlerReturns ==
    \E r \in Requests :
        /\ shed.pc[r] = "handling"
        /\ shed' = [shed EXCEPT !.self = dispatch_returned(@), !.pc[r] = "idle",
                                !.answers = Append(@, 200)]
        /\ ShedUnchanged

\* call_next raises (an error of the handler, or the task's cancellation)
HandlerRaises ==
    \E r \in Requests :
        /\ shed.pc[r] = "handling"
        /\ shed' = [shed EXCEPT !.self = dispatch_raised(@), !.pc[r] = "idle",
                                !.answers = Append(@, 500)]
        /\ ShedUnchanged

NextShed == RequestArrives \/ HandlerReturns \/ HandlerRaises

SpecShed == InitShed /\ [][NextShed]_vars

\* ---- reading the history ---------------------------------------------------
Last(s) == s[Len(s)]

\* the call invoked func, func raised, and the except clause matched
CountedFailure(x) == x.invoked /\ x.op_err # NoError /\ Catches(x.op_err)
UncountedFailure(x) == x.invoked /\ x.op_err # NoError /\ ~Catches(x.op_err)
Rejection(x) == ~x.invoked /\ x.out = "raised" /\ x.err = CircuitOpenError
HalfOpenSuccess(x) == x.invoked /\ x.st = HALF_OPEN /\ x.out = "returned"
Returned(x) == x.out = "returned"

\* index of the last finished call satisfying P, 0 when there is none
LastIndexWhere(P(_)) ==
    LET S == {i \in 1..Len(log) : P(log[i])}
    IN  IF S = {} THEN 0 ELSE CHOOSE i \in S : \A j \in S : j <= i

NotHalfOpenSuccess(x) == ~HalfOpenSuccess(x)

\* a call begins / finishes in this step
Begins == started' = started + 1
Finishes == Len(log') = Len(log) + 1
Elapsed == opened_at # None /\ (now - opened_at) >= config.recovery_timeout_seconds

\* ---- C1 ---------------------------------------------------------------------
\* C1: from a new breaker, once failure_threshold calls in a row have each
\* invoked func and ended in a counted failure, the breaker is Open; a call
\* begun then, before recovery_timeout_seconds has elapsed, is rejected with the
\* circuit-open error and func is not invoked.
OnlyCountedFailuresSoFar ==
    /\ calls[1].pc = "idle"
    /\ Len(log) = config.failure_threshold
    /\ \A i \in 1..Len(log) : CountedFailure(log[i])

C1_OpensAfterThreshold ==
    /\ [](OnlyCountedFailuresSoFar => state = OPEN)
    /\ [][(OnlyCountedFailuresSoFar /\ Begins /\ ~Elapsed)
            => /\ log' = Append(log, Finished(OPEN, FALSE, NoError, "raised", CircuitOpenError))
               /\ invoked' = invoked]_vars

C1_Witness ==
    /\ config.failure_threshold = 2
    /\ Len(log) = 3
    /\ CountedFailure(log[1]) /\ CountedFailure(log[2])
    /\ Rejection(log[3])
    /\ state = OPEN

\* ---- C2 ---------------------------------------------------------------------
\* C2: a call begun while Open with now - opened_at >= recovery_timeout_seconds
\* puts the breaker in HalfOpen with success_count 0 and invokes func (it is not
\* rejected); a call begun while Open with a smaller elapsed time leaves it Open.
C2_LazyHalfOpen ==
    [][(Begins /\ state = OPEN)
        => IF Elapsed
           THEN /\ state' = HALF_OPEN
                /\ success_count' = 0
                /\ invoked' = invoked + 1
                /\ log' = log
                /\ \E c \in Callers : calls[c].pc = "idle" /\ calls'[c].pc = "running"
           ELSE state' = OPEN /\ invoked' = invoked]_vars

\* the call before was rejected, this one entered HalfOpen and is running func;
\* success_count had been left at success_threshold by an earlier recovery
C2_Witness ==
    /\ log # <<>> /\ Rejection(Last(log))
    /\ state = HALF_OPEN
    /\ success_count = 0
    /\ calls[1].pc = "running"
    /\ \E i \in 1..Len(log) : HalfOpenSuccess(log[i])

\* ---- C3 ---------------------------------------------------------------------
\* C3: in sequential use, counting from the call that entered HalfOpen, after
\* success_threshold successful calls in a row the breaker is Closed with
\* failure_count 0, and after fewer (and no failure) it is still HalfOpen.
TrailingHalfOpenSuccesses == Len(log) - LastIndexWhere(NotHalfOpenSuccess)

\* the call before the trailing successes ended with the breaker Open, so the
\* first of them is the call that entered HalfOpen
TrailingSuccessesStartHalfOpen ==
    LET j == LastIndexWhere(NotHalfOpenSuccess)
    IN  /\ j >= 1
        /\ TrailingHalfOpenSuccesses >= 1
        /\ \/ log[j].st # HALF_OPEN
           \/ log[j].st = HALF_OPEN /\ CountedFailure(log[j])

C3_ClosesAfterSuccessThreshold ==
    (calls[1].pc = "idle" /\ TrailingSuccessesStartHalfOpen)
        => IF TrailingHalfOpenSuccesses < config.success_threshold
           THEN state = HALF_OPEN
           ELSE /\ TrailingHalfOpenSuccesses = config.success_threshold
                /\ state = CLOSED
                /\ failure_count = 0

C3_Witness ==
    /\ calls[1].pc = "idle"
    /\ TrailingSuccessesStartHalfOpen
    /\ config.success_threshold = 2
    /\ TrailingHalfOpenSuccesses = 2
    /\ state = CLOSED

\* ---- C4 ---------------------------------------------------------------------
\* C4: in sequential use, a call whose func raises a counted failure while the
\* breaker is HalfOpen leaves the breaker Open with opened_at set to the time
\* of that failure.
C4_HalfOpenFailureReopens ==
    [][(state = HALF_OPEN /\ Finishes /\ CountedFailure(Last(log')))
        => (state' = OPEN /\ opened_at' = now /\ opened_at' >= opened_at)]_vars

\* a HalfOpen success below the threshold, then a HalfOpen failure, later than
\* the first opening
C4_Witness ==
    /\ Len(log) >= 2
    /\ HalfOpenSuccess(log[Len(log) - 1])
    /\ Last(log).st = HALF_OPEN /\ CountedFailure(Last(log))
    /\ config.failure_threshold = 2
    /\ state = OPEN
    /\ opened_at = now
    /\ success_count = 1

\* ---- C5 ---------------------------------------------------------------------
\* C5: a call begun while Open before recovery_timeout_seconds has elapsed
\* changes no field of the breaker, does not invoke func and does not increment
\* circuit_breaker_failures_total, also when self.exceptions matches the
\* rejection error's own type.
C5_RejectionChangesNothing ==
    [][(Begins /\ state = OPEN /\ ~Elapsed)
        => /\ UNCHANGED breaker
           /\ invoked' = invoked
           /\ circuit_breaker_failures_total' = circuit_breaker_failures_total
           /\ Finishes /\ Rejection(Last(log'))]_vars

C5_Witness ==
    /\ log # <<>> /\ Rejection(Last(log))
    /\ "Exception" \in exceptions
    /\ state = OPEN
    /\ failure_count = config.failure_threshold
    /\ circuit_breaker_failures_total = failure_count

\* ---- C6 ---------------------------------------------------------------------
\* C6: in sequential use, a success while Closed sets failure_count to 0; while
\* Closed, failure_count is the number of counted failures since the last
\* successful call (or since construction) and is below failure_threshold; the
\* breaker leaves Closed for Open only when failure_threshold counted failures
\* have occurred with no success between them.
CountedSinceLastSuccess ==
    Cardinality({i \in (LastIndexWhere(Returned) + 1)..Len(log) : CountedFailure(log[i])})

C6_ClosedFailureCount ==
    /\ [](state = CLOSED
            => /\ failure_count = CountedSinceLastSuccess
               /\ failure_count < config.failure_threshold)
    /\ [][(state = CLOSED /\ Finishes /\ Returned(Last(log'))) => failure_count' = 0]_vars
    /\ [][(state = CLOSED /\ state' = OPEN)
            => CountedSinceLastSuccess' = config.failure_threshold]_vars

\* Closed, one counted failure, then a success that cleared it, then another
\* counted failure
C6_Witness ==
    /\ Len(log) = 3
    /\ state = CLOSED
    /\ CountedFailure(log[1]) /\ Returned(log[2]) /\ CountedFailure(log[3])
    /\ failure_count = 1

\* ---- C7 ---------------------------------------------------------------------
\* C7: when func raises an error that self.exceptions does not match, in Closed
\* or HalfOpen, the call raises that error and leaves state, failure_count,
\* success_count, last_failure_time and opened_at as they were.
C7_UncountedFailureTouchesNothing ==
    [][(Finishes /\ UncountedFailure(Last(log')))
        => /\ UNCHANGED breaker
           /\ Last(log').out = "raised"
           /\ Last(log').err = Last(log').op_err]_vars

C7_Witness ==
    /\ log # <<>> /\ UncountedFailure(Last(log))
    /\ Last(log).st = HALF_OPEN
    /\ state = HALF_OPEN
    /\ failure_count >= 1

\* ---- C8 ---------------------------------------------------------------------
\* C8: every call whose func was invoked and raised ends by raising the very
\* error func raised, whatever the state and whether or not it opened the
\* breaker.
C8_FailurePropagatesUnchanged ==
    \A i \in 1..Len(log) :
        (log[i].invoked /\ log[i].op_err # NoError)
            => (log[i].out = "raised" /\ log[i].err = log[i].op_err)

\* a counted failure of a call admitted while Closed that finished when the
\* breaker was already Open
C8_Witness ==
    /\ Len(log) >= 2
    /\ CountedFailure(log[Len(log) - 1]) /\ log[Len(log) - 1].st = CLOSED
    /\ CountedFailure(Last(log)) /\ Last(log).st = CLOSED
    /\ config.failure_threshold = 1
    /\ state = OPEN
    /\ Last(log).err.origin = "op"

\* ---- C9 ---------------------------------------------------------------------
\* C9: under overlapping call_async invocations an opening is performed once:
\* while the breaker stays Open no call sets state to Open again and opened_at
\* keeps the time of the first opening.
C9_OpenedOnce ==
    [][(state = OPEN /\ state' = OPEN)
        => opened_at' = opened_at]_vars

\* ---- C10 --------------------------------------------------------------------
\* C10: when parallel threads have each finished a call_sync with a counted
\* failure and nothing else has finished, failure_count has grown by one per
\* failure: no increment is lost.
C10_NoLostFailure ==
    ((\A t \in Callers : calls[t].pc = "idle") /\ (\A i \in 1..Len(log) : CountedFailure(log[i])))
        => failure_count = Len(log)

\* ---- C11 --------------------------------------------------------------------
\* C11: with parallel threads in call_sync interleaved statement by statement,
\* whenever no thread is inside call_sync the breaker is in a state that the
\* bookkeeping blocks run one after the other can produce; in particular Open
\* or HalfOpen implies failure_count >= failure_threshold.
C11_QuiescentStateIsSerial ==
    (\A t \in Callers : calls[t].pc = "idle")
        => (state \in {OPEN, HALF_OPEN} => failure_count >= config.failure_threshold)

\* ---- C12 --------------------------------------------------------------------
\* C12: under overlapping call_async invocations, a call admitted while Closed
\* that returns while the breaker is HalfOpen is not counted: it leaves
\* success_count alone and does not close the breaker.
C12_OnlyHalfOpenProbesCount ==
    [][(state = HALF_OPEN /\ Finishes /\ Returned(Last(log')) /\ Last(log').st = CLOSED)
        => (success_count' = success_count /\ state' = HALF_OPEN)]_vars

\* ---- C13 --------------------------------------------------------------------
\* C13: the error of a rejected call has a type that no error raised by the
\* protected function has, so that an except clause (self.exceptions of an
\* enclosing breaker, the exceptions of a retry decorator) can match the one
\* without matching the other.
ErrorTypes == OpKinds \cup {CircuitOpenError.kind}

C13_RejectionKindIsDistinct ==
    \A i \in 1..Len(log) :
        Rejection(log[i])
            => /\ log[i].err.kind \notin OpKinds
               /\ \E type \in ErrorTypes :
                     /\ IsInstance(log[i].err.kind, type)
                     /\ \A e \in OpErrors : ~IsInstance(e.kind, type)

\* ---- reading the history of a retry run ---------------------------------------
Indices(ev) == {i \in 1..Len(events) : events[i].ev = ev}
Count(ev) == Cardinality(Indices(ev))
Invocations == Count("invoke")
RunDone == run.pc = "done"

\* every invocation of func so far ended in an error the except clause matches
FuncAlwaysFailedRetryably ==
    /\ Count("return") = 0
    /\ \A i \in Indices("fail") : RetryCatches(events[i].err)
CallbackNeverRaised == Count("on_retry_raised") = 0

IsCoreEvent(x) == x.ev \in {"invoke", "fail", "sleep", "return"}
CoreEvents == SelectSeq(events, IsCoreEvent)

AllAttemptsFailed ==
    /\ RunDone
    /\ Count("fail") = retry_config.max_attempts
    /\ \A i \in Indices("fail") : RetryCatches(events[i].err)

C15_RaisesLastFailure ==
    AllAttemptsFailed
        => /\ run.out = "raised"
           /\ \E i \in Indices("fail") :
                 /\ events[i].n = retry_config.max_attempts - 1
                 /\ run.err = events[i].err

\* three attempts, the last error of another type than the first
C15_Witness ==
    /\ AllAttemptsFailed
    /\ retry_config.max_attempts = 3
    /\ run.err.attempt = 2
    /\ \E i \in Indices("fail") : events[i].n = 0 /\ events[i].err.kind # run.err.kind

\* ---- C16 --------------------------------------------------------------------
\* C16: when func failed with retryable errors on its first k attempts and then
\* returned, the run returns, func was invoked k + 1 times and not again after
\* the success, and the run slept once between each failed attempt and the
\* next; without jitter the i-th sleep lasts what the backoff gives for
\* attempt i - 1 (base_delay_ms * multiplier^(i-1), capped, in whole ms).
BackoffMs(attempt) ==
    LET num == retry_config.base_delay_ms * Pow(retry_config.multiplier.num, attempt)
        den == Pow(retry_config.multiplier.den, attempt)
    IN  IF num <= retry_config.max_delay_ms * den THEN num \div den
        ELSE retry_config.max_delay_ms

C16_SucceedsAfterFailures ==
    (RunDone /\ Count("return") = 1)
        => LET k == Count("fail")
           IN  /\ run.out = "returned"
               /\ Invocations = k + 1
               /\ Len(CoreEvents) = 3 * k + 2
               /\ \A i \in 0..(k - 1) :
                     /\ CoreEvents[3 * i + 1] = Event("invoke", i, RetryNone)
                     /\ CoreEvents[3 * i + 2].ev = "fail"
                     /\ CoreEvents[3 * i + 3].ev = "sleep"
                     /\ ~retry_config.jitter => CoreEvents[3 * i + 3].n = BackoffMs(i)
               /\ CoreEvents[3 * k + 1] = Event("invoke", k, RetryNone)
               /\ CoreEvents[3 * k + 2].ev = "return"

\* two failures, sleeps of 1 ms and 2 ms, then the success
C16_Witness ==
    /\ RunDone /\ run.out = "returned"
    /\ ~retry_config.jitter
    /\ Count("fail") = 2
    /\ \E i, j \in Indices("sleep") : i < j /\ events[i].n = 1 /\ events[j].n = 2

\* ---- C17 --------------------------------------------------------------------
\* C17: an attempt that fails with an error the except clause does not match
\* ends the run at once with that error: no later attempt, delay, on_retry
\* call or sleep, and no increment of retry_attempts_total for that attempt.
C17_NonRetryablePropagatesAtOnce ==
    \A i \in Indices("fail") :
        ~RetryCatches(events[i].err)
            => /\ i = Len(events)
               /\ RunDone
               /\ run.out = "raised"
               /\ run.err = events[i].err
               /\ retry_attempts_total[events[i].n + 1] = 0

\* a retried failure, then a failure that is not retryable
C17_Witness ==
    /\ RunDone
    /\ Count("fail") = 2 /\ Count("sleep") = 1
    /\ ~RetryCatches(run.err)
    /\ run.err.attempt = 1
    /\ retry_attempts_total[1] = 1 /\ retry_attempts_total[2] = 0

\* ---- C18 --------------------------------------------------------------------
\* what follows, in order, a retryable failure after which attempts remain:
\* the delay is computed, on_retry (when given) is called once with the number
\* of the failed attempt counted from 1 and the error, then the sleep of that
\* delay, then the next invocation; a failure of the last attempt is followed
\* by no on_retry call.
RetryStepsInOrder ==
    \A i \in Indices("fail") :
        RetryCatches(events[i].err)
            => IF events[i].n < retry_config.max_attempts - 1
               THEN LET s == IF on_retry THEN i + 3 ELSE i + 2
                    IN  /\ Len(events) >= s - 1
                        /\ events[i + 1].ev = "delay"
                        /\ on_retry => events[i + 2] = Event("on_retry", events[i].n + 1,
                                                             events[i].err)
                        /\ Len(events) >= s
                             => \/ /\ events[s] = Event("sleep", events[i + 1].n, RetryNone)
                                   /\ Len(events) > s
                                        => events[s + 1] = Event("invoke", events[i].n + 1,
                                                                 RetryNone)
                                \/ /\ on_retry
                                   /\ events[s].ev = "on_retry_raised"
                                   /\ Len(events) = s
               ELSE i = Len(events)

\* C18 (as stated): the steps come in that order, and a finished run has
\* called on_retry once less than it has invoked func.
C18_RetryOrder_AsStated ==
    /\ RetryStepsInOrder
    /\ (RunDone /\ on_retry) => Count("on_retry") = Invocations - 1

\* C18 (amended): the steps come in that order; a finished run in which every
\* on_retry call returned has called on_retry once less than it has invoked
\* func, and a run that an on_retry call ended by raising has called it as
\* often as it has invoked func.
C18_RetryOrder ==
    /\ RetryStepsInOrder
    /\ (RunDone /\ on_retry /\ CallbackNeverRaised) => Count("on_retry") = Invocations - 1
    /\ (RunDone /\ ~CallbackNeverRaised) => Count("on_retry") = Invocations

\* all three attempts failed: two on_retry calls, none after the last failure
C18_Witness ==
    /\ RunDone /\ on_retry /\ CallbackNeverRaised
    /\ Invocations = 3
    /\ Count("on_retry") = 2
    /\ Last(events).ev = "fail"

\* ---- C19 --------------------------------------------------------------------
\* the value before int(): min(base_delay_ms * multiplier^attempt, max_delay_ms)
\* as a fraction
CappedBackoff(attempt) ==
    LET num == retry_config.base_delay_ms * Pow(retry_config.multiplier.num, attempt)
        den == Pow(retry_config.multiplier.den, attempt)
    IN  IF num <= retry_config.max_delay_ms * den
        THEN [num |-> num, den |-> den]
        ELSE [num |-> retry_config.max_delay_ms, den |-> 1]

Calculated == calc # NoCalc

C20_JitterRange_AsStated ==
    (Calculated /\ retry_config.jitter)
        => LET d == CappedBackoff(calc.attempt)
           IN  /\ 2 * d.den * calc.result >= d.num
               /\ 2 * d.den * calc.result <= 3 * d.num

\* C20 (amended): with jitter every value calculate_delay_ms returns is a whole
\* number of milliseconds in [0.5 * d - 1, 1.5 * d], above 0.5 * d - 1: the
\* truncation can take it below 0.5 * d, by less than 1 ms.
C20_JitterRange ==
    (Calculated /\ retry_config.jitter)
        => LET d == CappedBackoff(calc.attempt)
           IN  /\ 2 * d.den * (calc.result + 1) > d.num
               /\ 2 * d.den * calc.result <= 3 * d.num
               /\ calc.result >= 0

\* d = 1 ms and a factor of 0.5: 0 ms
C20_Witness ==
    /\ Calculated /\ retry_config.jitter
    /\ CappedBackoff(calc.attempt) = [num |-> 1, den |-> 1]
    /\ calc.factor = [num |-> 2, den |-> 4]
    /\ calc.result = 0

\* ---- C21 --------------------------------------------------------------------
\* C21: calculate_delay_ms never returns more than max_delay_ms, with jitter
\* or without.
C21_NeverAboveMaxDelay ==
    Calculated => calc.result <= retry_config.max_delay_ms

\* ---- C22 --------------------------------------------------------------------
RECURSIVE SumTo(_, _)
SumTo(f, n) == IF n = 0 THEN 0 ELSE f[n] + SumTo(f, n - 1)

\* the number of increments of retry_attempts_total, all labels together
Increments == SumTo(retry_attempts_total, MaxAttempts)

\* C22: in a finished run retry_attempts_total was incremented once for every
\* failure that another attempt followed and for no other: the increments
\* number the invocations of func minus one.
C22_CountsRetriesOnly ==
    RunDone => Increments = Invocations - 1

\* ---- reading a lookup -----------------------------------------------------------
Looked == lookup.slo # "none"
PatternsOf(patterns) == {patterns[i] : i \in DOMAIN patterns}
ContainsAny(patterns, endpoint) == \E p \in PatternsOf(patterns) : In(p, endpoint)

\* ---- C23 --------------------------------------------------------------------
\* C23: get_slo_for_endpoint returns the critical objective when the endpoint
\* contains one of the critical patterns, otherwise the non-critical objective
\* when it contains one of the non-critical patterns, otherwise the default
\* objective; every endpoint, the empty one too, gets one of the three
\* objectives, which are three different objects.
C23_ObjectiveByPattern ==
    Looked
        => /\ lookup.slo =
                IF ContainsAny(critical_patterns, lookup.endpoint)
                THEN "CRITICAL_ENDPOINT_SLO"
                ELSE IF ContainsAny(non_critical_patterns, lookup.endpoint)
                THEN "NON_CRITICAL_ENDPOINT_SLO"
                ELSE "ATLAS_API_SLO"
           /\ lookup.slo \in SloNames
           /\ lookup.endpoint = <<>> => lookup.slo = "ATLAS_API_SLO"
           /\ \A n, m \in SloNames : n # m => objectives[n] # objectives[m]

\* "/transactions", the last pattern of the first list, inside a longer path
C23_Witness ==
    /\ Looked
    /\ lookup.endpoint = <<"/", "a", "p", "i">> \o critical_patterns[5]
    /\ lookup.slo = "CRITICAL_ENDPOINT_SLO"

\* ---- C24 --------------------------------------------------------------------
\* str.lower(), for the capitals the endpoints use
LowerChar(ch) ==
    CASE ch = "H" -> "h" [] ch = "R" -> "r" [] ch = "E" -> "e" [] ch = "P" -> "p"
      [] ch = "O" -> "o" [] ch = "T" -> "t" [] ch = "S" -> "s" [] OTHER -> ch
Lower(str) == [i \in DOMAIN str |-> LowerChar(str[i])]

AllPatterns == PatternsOf(critical_patterns) \cup PatternsOf(non_critical_patterns)

\* C24: an endpoint that contains a critical and a non-critical pattern gets
\* the critical objective, wherever the two are; an endpoint that is a pattern
\* up to letter case, but not the pattern, gets the default objective.
C24_CriticalFirstCaseSensitive ==
    Looked
        => /\ (ContainsAny(critical_patterns, lookup.endpoint)
                 /\ ContainsAny(non_critical_patterns, lookup.endpoint))
               => lookup.slo = "CRITICAL_ENDPOINT_SLO"
           /\ (\E p \in AllPatterns : lookup.endpoint # p /\ Lower(lookup.endpoint) = p)
               => lookup.slo = "ATLAS_API_SLO"

\* "/reports/health": the non-critical pattern comes first in the path
C24_Witness ==
    /\ Looked
    /\ lookup.endpoint = non_critical_patterns[2] \o critical_patterns[1]
    /\ lookup.slo = "CRITICAL_ENDPOINT_SLO"

\* ---- C25 --------------------------------------------------------------------
Built(class) == built.class = class /\ built.out # Pending
Rejected == built.out.error = "ValueError"

\* the constraint of each SLI on the arguments of the call; a NaN satisfies
\* no inequality
SliConstraint ==
    CASE built.class = "LatencySLI" ->
             /\ Le(built.args[1], built.args[2])
             /\ Le(built.args[2], built.args[3])
             /\ Le(built.args[3], built.args[4])
      [] built.class = "ErrorRateSLI" ->
             /\ Le(Float(0), built.args[1]) /\ Le(built.args[1], Float(1))
             /\ Le(Float(0), built.args[2]) /\ Le(built.args[2], Float(1))
      [] built.class = "ThroughputSLI" ->
             /\ Le(Float(0), built.args[1]) /\ Le(built.args[1], built.args[2])
      [] built.class = "AvailabilitySLI" ->
             /\ Le(Float(0), built.args[1]) /\ Le(built.args[1], Float(1))

SliClasses == {"LatencySLI", "ErrorRateSLI", "ThroughputSLI", "AvailabilitySLI"}

\* C25: the construction of an SLI raises ValueError, and yields no object,
\* exactly when the arguments violate the SLI's constraint.
C25_SliRejectedIffInvalid ==
    (built.class \in SliClasses /\ built.out # Pending)
        => /\ Rejected <=> ~SliConstraint
           /\ Rejected => built.out.obj = NoObject

\* ---- C26 --------------------------------------------------------------------
\* C26: CircuitBreakerConfig(...) raises ValueError when one of the three
\* arguments is below 1 and otherwise yields a configuration with the three
\* values, all >= 1: one of the configurations the breakers are built with.
C26_BreakerConfigValidated ==
    Built("CircuitBreakerConfig")
        => /\ Rejected <=> (built.args[1] < 1 \/ built.args[2] < 1 \/ built.args[3] < 1)
           /\ ~Rejected
                => /\ built.out.obj.failure_threshold = built.args[1]
                   /\ built.out.obj.recovery_timeout_seconds = built.args[2]
                   /\ built.out.obj.success_threshold = built.args[3]
                   /\ built.out.obj.failure_threshold >= 1
                   /\ built.out.obj.recovery_timeout_seconds >= 1
                   /\ built.out.obj.success_threshold >= 1
                   /\ built.out.obj \in Configs

\* the smallest valid configuration
C26_Witness ==
    /\ Built("CircuitBreakerConfig")
    /\ built.args = <<1, 1, 1>>
    /\ ~Rejected

\* ---- C27 --------------------------------------------------------------------
\* C27: RetryConfig(...) raises ValueError when max_attempts < 1,
\* base_delay_ms < 0, max_delay_ms < base_delay_ms or multiplier < 1.0 and
\* succeeds otherwise; calculate_delay_ms of a constructed configuration
\* returns a value >= 0 for every attempt.
C27_RetryConfigValidated ==
    /\ Built("RetryConfig")
        => Rejected <=> \/ built.args[1] < 1
                        \/ built.args[2] < 0
                        \/ built.args[3] < built.args[2]
                        \/ Lt(built.args[4], Float(1))
    /\ Calculated => (calc.result # None /\ calc.result >= 0)

\* ---- C28 --------------------------------------------------------------------
\* C28: whenever no call is under way, the gauge circuit_breaker_state holds
\* the number of the breaker's state (0 closed, 1 open, 2 half-open).
C28_GaugeFollowsState ==
    (\A t \in Callers : calls[t].pc = "idle")
        => circuit_breaker_state = StateValue(state)

\* ---- C29 --------------------------------------------------------------------
\* C29: a breaker driven through call_sync and one driven through call_async,
\* given the same calls, outcomes of func and clock readings, have the same
\* state, counters, timestamps and metrics after every step, admit the same
\* calls and end them the same way.
C29_SyncAsyncAgree ==
    /\ twin.sync = twin.async
    /\ twin.sync_admitted = twin.async_admitted
    /\ twin.sync_log = twin.async_log

\* both were opened, have recovered and are closed again
C29_Witness ==
    /\ twin.pc = "idle"
    /\ twin.async.state = CLOSED
    /\ twin.async.opened_at # None
    /\ \E i \in DOMAIN twin.async_log : twin.async_log[i].err = CircuitOpenError
    /\ twin.async_log[Len(twin.async_log)].out = "returned"

\* ---- C30 --------------------------------------------------------------------
SatisfiesConstraints(o) ==
    /\ LatencySLI(o.latency.p50_ms, o.latency.p95_ms, o.latency.p99_ms,
                  o.latency.p999_ms).error = "none"
    /\ ErrorRateSLI(o.error_rate.max_error_rate, o.error_rate.max_5xx_rate).error = "none"
    /\ ThroughputSLI(o.throughput.min_rps, o.throughput.max_rps).error = "none"
    /\ AvailabilitySLI(o.availability.min_availability).error = "none"

\* C30: the object a lookup returns has the field values it was built with at
\* import, at every call, and the three objectives satisfy the constraints of
\* their SLIs, whatever callers did with the objects of earlier lookups.
C30_ObjectivesNeverChange ==
    /\ Looked => objectives[lookup.slo] = ImportedObjectives[lookup.slo]
    /\ \A n \in SloNames : SatisfiesConstraints(objectives[n])

\* ---- C31 ------------------------------------------------------------------------
\* the state changes a breaker may make
Transitions ==
    {<<CLOSED, OPEN>>, <<OPEN, HALF_OPEN>>, <<HALF_OPEN, CLOSED>>, <<HALF_OPEN, OPEN>>}

\* C31: with call_async invocations overlapping only while func runs, every
\* change of self.state is Closed -> Open, Open -> HalfOpen, HalfOpen -> Closed
\* or HalfOpen -> Open; there is no direct Closed -> HalfOpen or Open -> Closed
\* step, also when a call finishes in another state than it was admitted in.
C31_OnlyLegalTransitions ==
    [][state' # state => <<state, state'>> \in Transitions]_vars

\* a call admitted while Closed has just returned on a breaker that is Open
C31_Witness ==
    /\ Len(log) > 0
    /\ Last(log).invoked
    /\ Last(log).st = CLOSED
    /\ Last(log).out = "returned"
    /\ state = OPEN

\* ---- C32 ------------------------------------------------------------------------
\* C32: used sequentially or through overlapping call_async invocations, a
\* breaker that is Open or HalfOpen has failure_count >= failure_threshold and
\* opened_at set, a Closed one has failure_count < failure_threshold, and
\* failure_count does not go down while the breaker stays Open or HalfOpen.
C32_CountsMatchState ==
    /\ []( /\ state \in {OPEN, HALF_OPEN} =>
                 (failure_count >= config.failure_threshold /\ opened_at # None)
           /\ state = CLOSED => failure_count < config.failure_threshold )
    /\ [][(state \in {OPEN, HALF_OPEN} /\ state' \in {OPEN, HALF_OPEN})
             => failure_count' >= failure_count]_vars

\* a success has completed while HalfOpen without closing the breaker
C32_Witness ==
    /\ state = HALF_OPEN
    /\ success_count > 0
    /\ failure_count >= config.failure_threshold
    /\ Len(log) > 0
    /\ Last(log).out = "returned"

\* ---- C33 ------------------------------------------------------------------------
\* C33: when from some time on func always returns, execute keeps being called
\* and the clock keeps advancing, the breaker is eventually Closed and stays
\* Closed, for every failure_threshold, success_threshold and
\* recovery_timeout_seconds.
C33_RecoveryIsLive == <>[](state = CLOSED)

\* the breaker was opened and is Closed again after func stopped raising
C33_Witness ==
    /\ state = CLOSED
    /\ opened_at # None
    /\ failure_count = 0
    /\ now > FailUntil

\* ---- C34 ------------------------------------------------------------------------
\* C34: in every reachable state 0 <= success_count <= success_threshold;
\* success_count changes only by the reset to 0 on entering HalfOpen and by +1
\* on a success that completes while HalfOpen, and keeps its value when the
\* breaker closes or reopens.
C34_SuccessCountBounded ==
    /\ [](0 <= success_count /\ success_count <= config.success_threshold)
    /\ [][success_count' # success_count =>
             \/ success_count' = 0 /\ state' = HALF_OPEN
             \/ success_count' = success_count + 1 /\ state = HALF_OPEN]_vars

\* ---- C35 ------------------------------------------------------------------------
\* A HalfOpen period is identified by the opened_at it started from: the next
\* period follows a later opening. The calls whose func is running and that
\* were admitted during the HalfOpen period of opening p:
ProbesInFlight(p) ==
    {c \in Callers : calls[c].pc = "running" /\ calls[c].st = HALF_OPEN
                                            /\ calls[c].period = p}

\* C35: the number of calls admitted during one HalfOpen period whose func is
\* running at the same time never exceeds success_threshold, however many
\* callers call execute concurrently.
C35_HalfOpenProbesLimited ==
    \A p \in 0..MaxTime : Cardinality(ProbesInFlight(p)) <= config.success_threshold

\* ---- C36 ------------------------------------------------------------------------
Min(a, b) == IF a <= b THEN a ELSE b
Rejections == Cardinality({i \in 1..Len(log) : Rejection(log[i])})

\* what C36 says of a finished run
ComposedCounts ==
    LET m == retry_config.max_attempts
        n == config.failure_threshold
    IN  /\ invoked = Min(m, n)
        /\ failure_count = Min(m, n)
        /\ Rejections = m - Min(m, n)
        /\ Invocations = m

C37_AlwaysTerminates ==
    /\ []( /\ Invocations <= retry_config.max_attempts
           /\ Count("delay") <= retry_config.max_attempts - 1
           /\ Count("sleep") <= retry_config.max_attempts - 1
           /\ run.attempt <= retry_config.max_attempts )
    /\ [](RunDone =>
             \/ run.out = "returned" /\ Count("return") = 1
                                      /\ Last(events).ev = "return"
             \/ run.out = "raised" /\ run.err # RetryNone)
    /\ <>RunDone

\* a run that used every attempt and every delay has ended
C37_Witness ==
    /\ RunDone
    /\ retry_config.max_attempts = MaxAttempts
    /\ Invocations = MaxAttempts
    /\ Count("sleep") = MaxAttempts - 1

\* ---- C38 ------------------------------------------------------------------------
\* C38: when on_retry raises, the run ends there: the callback's error is what
\* the wrapper raises, in place of func's failure; no sleep is performed and
\* func is not invoked again, although attempts remain and also when the
\* callback's error is of a retried type.
C38_CallbackErrorEndsRun ==
    Count("on_retry_raised") > 0
        => /\ RunDone
           /\ run.out = "raised"
           /\ Last(events).ev = "on_retry_raised"
           /\ run.err = Last(events).err
           /\ run.err.origin = "on_retry"
           /\ Invocations < retry_config.max_attempts
           /\ Count("sleep") = Invocations - 1

\* on_retry raised an error of a retried type after the first of three attempts
C38_Witness ==
    /\ Count("on_retry_raised") = 1
    /\ RetryCatches(run.err)
    /\ retry_config.max_attempts = 3
    /\ Invocations = 1

\* ---- C39 ------------------------------------------------------------------------
Handling == {r \in Requests : shed.pc[r] = "handling"}
Answered(status) == Cardinality({i \in 1..Len(shed.answers) : shed.answers[i] = status})

\* the counter is the number of admitted requests whose handler has not finished
CounterIsExact == shed.self.current_requests = Cardinality(Handling)

\* a request arriving at a full middleware gets 429, the handler is not called
\* and the counter is not changed; only such a request gets 429
RejectsWhenFull ==
    shed'.arrived = shed.arrived + 1 =>
        IF shed.self.current_requests >= shed.self.max_concurrent_requests
        THEN /\ shed'.answers = Append(shed.answers, 429)
             /\ shed'.handler_calls = shed.handler_calls
             /\ shed'.self = shed.self
        ELSE /\ shed'.answers = shed.answers
             /\ shed'.handler_calls = shed.handler_calls + 1

\* the end of a handler, by return or by raise, takes 1 off the counter
ReleasesOnce ==
    Len(shed'.answers) = Len(shed.answers) + 1 /\ shed'.arrived = shed.arrived
        => shed'.self.current_requests = shed.self.current_requests - 1

====
